---- MODULE Spec2Model ----
(***************************************************************************)
(* Model of the campaign-data-pull sync engine: the date-loop orchestrator *)
(* (backfill-all.js), the HubSpot client it drives (createSpendItem,       *)
(* addDailyTotalsMonotonic and the older additive variants) and the CRM    *)
(* state those calls read and write.                                       *)
(*                                                                         *)
(* Conventions                                                             *)
(*  - a calendar date is the triple <<year, month, day>> of its ISO text;  *)
(*  - epoch milliseconds are kept in units of one day (86400000 ms): every *)
(*    instant the program builds is a midnight UTC, so the unit is exact;  *)
(*  - a JS number that may be non-finite is a record [k, v]: k = "num"     *)
(*    with v in thousandths of a major currency unit, or k = "nan", "inf". *)
(***************************************************************************)
EXTENDS Integers, Sequences, FiniteSets, TLC

\* ------------------------------------------------------------------ bounds
MaxDays == 2
MaxStarts == 2
MaxFaults == 1
MaxKills == 1
MaxRaceDays == 3
MaxCalls == 3

\* -------------------------------------------------------- program constants
Names == {"A", "B"}
Ids == 1 .. Cardinality(Names)
Worlds == {"live", "ref"}
Procs == {1, 2}

\* ----------------------------------------------------------------- dates
\* Date.prototype.getTime() of `${iso}T00:00:00Z`, in days (days-from-civil).
EpochDay(iso) ==
  LET y  == IF iso[2] <= 2 THEN iso[1] - 1 ELSE iso[1]
      era == y \div 400
      yoe == y - era * 400
      mp  == IF iso[2] > 2 THEN iso[2] - 3 ELSE iso[2] + 9
      doy == (153 * mp + 2) \div 5 + iso[3] - 1
      doe == yoe * 365 + yoe \div 4 - yoe \div 100 + doy
  IN  era * 146097 + doe - 719468

\* Date.prototype.toISOString().slice(0, 10) of an instant, as a triple.
IsoOfEpochDay(n) ==
  LET z   == n + 719468
      era == z \div 146097
      doe == z - era * 146097
      yoe == (doe - doe \div 1460 + doe \div 36524 - doe \div 146096) \div 365
      doy == doe - (365 * yoe + yoe \div 4 - yoe \div 100)
      mp  == (5 * doy + 2) \div 153
      d   == doy - (153 * mp + 2) \div 5 + 1
      m   == IF mp < 10 THEN mp + 3 ELSE mp - 9
      y   == yoe + era * 400
  IN  << IF m <= 2 THEN y + 1 ELSE y, m, d >>

toEpochMillis(isoYmd) == EpochDay(isoYmd)

BaseDate == <<2024, 2, 29>>

Dates == { IsoOfEpochDay(EpochDay(BaseDate) + k) : k \in 0 .. (MaxDays - 1) }

\* The dates of the range two concurrent runs are given, and every date a
\* run can be given.
RaceDates == { IsoOfEpochDay(EpochDay(BaseDate) + k) : k \in 0 .. (MaxRaceDays - 1) }
Calendar == Dates \cup RaceDates

\* eachDate(fromYmd, toYmd): the dates yielded, in order.
RECURSIVE eachDateFrom(_, _)
eachDateFrom(t, end) ==
  IF t <= end THEN <<IsoOfEpochDay(t)>> \o eachDateFrom(t + 1, end) ELSE <<>>

eachDate_HalfOpen(fromYmd, toYmd) ==
  eachDateFrom(EpochDay(fromYmd), EpochDay(toYmd) - 1)

eachDate(fromYmd, toYmd) == eachDateFrom(EpochDay(fromYmd), EpochDay(toYmd))

\* ------------------------------------------------------- numbers as text
DigitChars == <<"0", "1", "2", "3", "4", "5", "6", "7", "8", "9">>

RECURSIVE Digits(_)
Digits(n) ==
  IF n < 10 THEN <<DigitChars[n + 1]>>
  ELSE Append(Digits(n \div 10), DigitChars[(n % 10) + 1])

\* `${Number(v || 0)}` for an integer v.
NumToStr(n) == IF n < 0 THEN <<"-">> \o Digits(0 - n) ELSE Digits(n)

DigitVal(c) == CHOOSE d \in 0 .. 9 : DigitChars[d + 1] = c

RECURSIVE ParseDigits(_)
ParseDigits(s) ==
  IF Len(s) = 0 THEN 0
  ELSE 10 * ParseDigits(SubSeq(s, 1, Len(s) - 1)) + DigitVal(s[Len(s)])

\* Number(p || 0) for a stored property p (<<>> when absent, else decimal text).
StrToNum(p) ==
  IF Len(p) = 0 THEN 0
  ELSE IF p[1] = "-" THEN 0 - ParseDigits(Tail(p))
  ELSE ParseDigits(p)

\* ------------------------------------------------------------- CRM state
\* One campaign record of the CRM.  clicks/imps/convs hold the property text
\* as stored, last holds <<>> or <<epoch>>, spend the ledger entries, and
\* prov (history only) how many times each day's delta is inside the totals.
NoCampaign ==
  [exists |-> FALSE, name |-> "", clicks |-> <<>>, imps |-> <<>>,
   convs |-> <<>>, status |-> "", last |-> <<>>, spend |-> {},
   prov |-> [d \in Calendar |-> 0]]

EmptyCrm == [id \in Ids |-> NoCampaign]

\* GET /marketing/v3/campaigns/{id}
CrmGetStatus(cs, id) == IF id \in Ids /\ cs[id].exists THEN 200 ELSE 404

\* GET /marketing/v3/campaigns (all pages, listing order = id order)
CrmIdsNamed(cs, name) == { id \in Ids : cs[id].exists /\ cs[id].name = name }

\* An id the CRM has given out, to a campaign that exists or that was
\* deleted since (a deleted campaign keeps its record, with exists = FALSE).
CrmIdUsed(cs, id) == cs[id].exists \/ cs[id].name # ""

\* POST /marketing/v3/campaigns
CrmCreateStatus(cs, name) ==
  IF CrmIdsNamed(cs, name) # {} THEN 409
  ELSE IF \A id \in Ids : CrmIdUsed(cs, id) THEN 400
  ELSE 201

CrmNewId(cs) == CHOOSE id \in Ids :
  /\ ~CrmIdUsed(cs, id)
  /\ \A j \in Ids : j < id => CrmIdUsed(cs, j)

CrmCreate(cs, name) ==
  [cs EXCEPT ![CrmNewId(cs)] =
     [NoCampaign EXCEPT !.exists = TRUE, !.name = name, !.status = "CREATED"]]

\* DELETE /marketing/v3/campaigns/{id}
CrmDelete(cs, id) == [cs EXCEPT ![id].exists = FALSE]

\* POST /marketing/v3/campaigns/{id}/spend: the CRM keeps `order` unique.
CrmSpendStatus(cs, id, body) ==
  IF CrmGetStatus(cs, id) # 200 THEN 404
  ELSE IF \E e \in cs[id].spend : e.order = body.order THEN 409
  ELSE 201

CrmSpendAdd(cs, id, body) == [cs EXCEPT ![id].spend = @ \cup {body}]

\* PATCH /marketing/v3/campaigns/{id} with the totals properties
CrmPatch(cs, id, props) ==
  [cs EXCEPT ![id].clicks = props.clicks, ![id].imps = props.imps,
             ![id].convs = props.convs, ![id].status = props.status,
             ![id].last = <<props.last>>, ![id].prov = props.prov]

\* --------------------------------------------------- client: spend items
\* Variant: the key no longer depends on the date (the `order: 0` of the
\* older ensureDailySpendItem).
SpendOrder_Const(isoDate) == 0

\* order = Number(new Date(isoDate).toISOString().slice(0,10).replace(/-/g,''))
SpendOrder(isoDate) ==
  LET iso == IsoOfEpochDay(EpochDay(isoDate))
  IN  iso[1] * 10000 + iso[2] * 100 + iso[3]

\* x.toFixed(2) read back with Number(): nearest hundredth, ties away from 0.
ToFixed2(x) ==
  IF x.k # "num" THEN x
  ELSE IF x.v < 0 THEN [k |-> "num", v |-> 0 - (((0 - x.v) + 5) \div 10) * 10]
  ELSE [k |-> "num", v |-> ((x.v + 5) \div 10) * 10]

SpendBody(isoDate, amountMajor, source) ==
  [name   |-> <<source, isoDate>>,
   amount |-> ToFixed2(amountMajor),
   order  |-> SpendOrder(isoDate),
   date   |-> toEpochMillis(isoDate)]

\* Variant: only 201 is accepted (the older createSpendItem).
SpendReturns_Only201(status) == status = 201

\* createSpendItem returns normally on 201 and on 409, throws otherwise.
SpendReturns(status) == status = 201 \/ status = 409

\* ------------------------------------------------------- client: totals
getTotalsAndLastDate(c) ==
  [clicks |-> StrToNum(c.clicks), imps |-> StrToNum(c.imps),
   convs  |-> StrToNum(c.convs),
   lastMs |-> IF c.last # <<>> THEN c.last[1] ELSE 0,
   prov   |-> c.prov]

\* Variants of the guard: none at all (the unconditional add), and a
\* strict comparison that lets the marker's own day through.
MonotonicSkip_NoGuard(rd, dayMs) == FALSE
MonotonicSkip_Strict(rd, dayMs) == rd.lastMs # 0 /\ dayMs < rd.lastMs

\* Variant: a campaign without a marker is skipped too.
MonotonicSkip_FirstRun(rd, dayMs) == rd.lastMs = 0 \/ dayMs <= rd.lastMs

\* addDailyTotalsMonotonic: the guard `if (lastMs && dayMs <= lastMs) return false`
MonotonicSkip(rd, dayMs) == rd.lastMs # 0 /\ dayMs <= rd.lastMs

\* patchCampaignProperties: every property but the marker is sent as
\* `${Number(v || 0)}`; the status text 'OK' therefore goes out as "NaN".
PatchProps(clicks, imps, convs, dayMs, prov) ==
  [clicks |-> NumToStr(clicks), imps |-> NumToStr(imps),
   convs |-> NumToStr(convs), status |-> "NaN", last |-> dayMs, prov |-> prov]

\* Variant: the day's delta replaces the stored totals instead of being added.
MonotonicNext_Overwrite(rd, delta, dateISO) ==
  PatchProps(delta.clicks, delta.impressions, delta.conversions,
             toEpochMillis(dateISO), [rd.prov EXCEPT ![dateISO] = @ + 1])

\* addDailyTotalsMonotonic: the properties written for a day past the marker.
MonotonicNext(rd, delta, dateISO) ==
  PatchProps(rd.clicks + delta.clicks, rd.imps + delta.impressions,
             rd.convs + delta.conversions, toEpochMillis(dateISO),
             [rd.prov EXCEPT ![dateISO] = @ + 1])

\* getTotals: toNum of the three totals properties (no marker is read).
getTotals(c) ==
  [clicks |-> StrToNum(c.clicks), imps |-> StrToNum(c.imps),
   convs  |-> StrToNum(c.convs), prov |-> c.prov]

\* The older patchCampaignProperties sends props as they are; the CRM keeps
\* a number as its decimal text.
RawProps(clicks, imps, convs, dayMs, prov) ==
  [clicks |-> NumToStr(clicks), imps |-> NumToStr(imps),
   convs |-> NumToStr(convs), status |-> "OK", last |-> dayMs, prov |-> prov]

\* addTotals / addTotalsDelta: current + deltas, marker := the call's date.
AddTotalsNext(current, deltas, dateISO) ==
  RawProps(current.clicks + deltas.clicks, current.imps + deltas.impressions,
           current.convs + deltas.conversions, toEpochMillis(dateISO),
           [current.prov EXCEPT ![dateISO] = @ + 1])

\* setTotalsDirect: the given totals replace the stored ones.
SetTotalsProps(totals, dateISO) ==
  RawProps(totals.clicks, totals.impressions, totals.conversions,
           toEpochMillis(dateISO), [d \in Calendar |-> IF d = dateISO THEN 1 ELSE 0])

\* ------------------------------------------------------------ report rows
Num(v) == [k |-> "num", v |-> v]
NaN == [k |-> "nan", v |-> 0]
Infinity == [k |-> "inf", v |-> 0]
Undefined == [k |-> "undef", v |-> 0]
Text == [k |-> "text", v |-> 0]

Row(name, imps, clicks, convs, spend) ==
  [campaignName |-> name, impressions |-> imps, clicks |-> clicks,
   conversions |-> convs, spend |-> spend]

\* processDay with the default --source=both: Bing rows, then Twitter rows.
SourceList == <<"Bing Ads", "Twitter Ads">>

\* What the two getDailyCampaignRows return for one day, as the pair
\* <<Bing rows, Twitter rows>>: no data, or one campaign reported by both
\* networks.
CoreDayReports ==
  { << <<>>, <<>> >>,
    << <<Row("A", 3, 1, 0, Num(1254))>>, <<Row("A", 1, 1, 0, Num(500))>> >> }

\* The same, and a Bing report with a row without spend, a nameless row, a
\* second campaign and a row without metrics.
DayReports ==
  CoreDayReports \cup
  { << <<Row("A", 0, 2, 1, Num(0)), Row("", 1, 1, 0, Num(1000)),
         Row("B", 5, 1, 0, Num(20000)), Row("B", 0, 0, 0, Num(4))>>, <<>> >> }

\* One campaign with metrics and spend, every day, from Bing only.
RaceReports == { << <<Row("A", 3, 1, 0, Num(1254))>>, <<>> >> }

\* Row values of spend, finite and not, for the spend-amount check.
SpendValues ==
  { Num(v) : v \in {0, 4, 5, 14, 15, 995, 1254, 1255, 20000, -4, -5, -6, -1250} }
    \cup {NaN, Infinity, Undefined, Text}

SpendProbeReports ==
  { << <<Row("A", 0, c, 0, s)>>, <<>> >> : c \in {0, 1}, s \in SpendValues }

\* ------------------------------------------------- orchestrator helpers
\* toMajorUnits: Math.round(Number(amountFloat || 0) * 100) / 100
toMajorUnits(amountFloat) ==
  LET n == IF amountFloat.k \in {"undef", "nan"} THEN Num(0)
           ELSE IF amountFloat.k = "text" THEN NaN
           ELSE amountFloat
  IN  IF n.k = "num" THEN Num(((n.v + 5) \div 10) * 10) ELSE n

\* amountMajor > 0
IsPositive(x) == (x.k = "num" /\ x.v > 0) \/ x.k = "inf"

\* Variant: the totals call is made for every row.
HasDelta_Always(row) == TRUE

\* if (addClicks || addImps || addConvs)
HasDelta(row) == row.clicks # 0 \/ row.impressions # 0 \/ row.conversions # 0

RowDelta(row) ==
  [clicks |-> row.clicks, impressions |-> row.impressions,
   conversions |-> row.conversions]

NoMap == [n \in Names |-> 0]
NoRead == [clicks |-> 0, imps |-> 0, convs |-> 0, lastMs |-> 0,
           prov |-> [d \in Calendar |-> 0]]
\* What the last step of a process did: the call, the HTTP status, how the
\* client function returned, and the campaign, day and row it was made for.
NoEvent == [op |-> "none", status |-> 0, ret |-> "none", id |-> 0,
            day |-> BaseDate, row |-> {}, body |-> {}]
Event(r, op, status, ret) ==
  [op |-> op, status |-> status, ret |-> ret, id |-> r.campaignId,
   day |-> r.ymd, row |-> IF r.i \in 1 .. Len(r.rows) THEN {r.rows[r.i]} ELSE {},
   body |-> {}]

\* The report job of one day's Bing fetch: the submit attempts made, and the
\* milliseconds since polling began (Date.now() - startedAt).
NoJob == [attempts |-> 0, elapsed |-> 0]

\* backfill-range.js: --maxRetries (per day) and --pauseMs, with their
\* defaults.
DefaultOpts == [maxRetries |-> 3, pauseMs |-> 1500]

\* A process slot before main() has been started in it.  prev is the
\* "Done." line of the run that completed in the slot just before (none: {}),
\* ranges the [from, to] of this run and of the terminated runs it resumes.
\* ensure: the row loop resolves names with hs.ensureCampaign; tries is the
\* i of its retry loop.  job: the report job of the current day's Bing fetch.
\* opts: the retry options of a backfill-range run.
IdleProc ==
  [pc |-> "idle", world |-> "live", from |-> BaseDate, to |-> BaseDate,
   dryRun |-> FALSE, di |-> 0, ymd |-> BaseDate, si |-> 1, rows |-> <<>>,
   i |-> 0, map |-> NoMap, campaignId |-> 0, rd |-> NoRead, ev |-> NoEvent,
   dT |-> 0, dS |-> 0, dF |-> 0,
   days |-> 0, totalsAdded |-> 0, spendItems |-> 0, failures |-> 0,
   prev |-> {}, ranges |-> {},
   ensure |-> FALSE, tries |-> 0, job |-> NoJob, opts |-> DefaultOpts]

\* main: `for (const ymd of eachDate(from, to))` takes its next date, or the
\* loop ends and the summary is printed.
NextDay(r) ==
  LET ds == eachDate(r.from, r.to)
      r0 == [r EXCEPT !.si = 1, !.rows = <<>>, !.i = 0,
                      !.dT = 0, !.dS = 0, !.dF = 0, !.job = NoJob]
  IN  IF r.di < Len(ds)
      THEN [r0 EXCEPT !.di = @ + 1, !.ymd = ds[r.di + 1], !.pc = "fetch"]
      ELSE [r0 EXCEPT !.pc = "done"]

\* main: processDay returned; its counters are added to the run's.
EndDay(r) ==
  NextDay([r EXCEPT !.days = @ + 1, !.totalsAdded = @ + r.dT,
                    !.spendItems = @ + r.dS, !.failures = @ + r.dF])

\* main: processDay threw; one failure, the day's partial counters are lost.
DayFailed(r) == NextDay([r EXCEPT !.failures = @ + 1])

\* processDay: after one source's rows, the next source or the end of the day.
NextSource(r) ==
  IF r.si < Len(SourceList)
  THEN [r EXCEPT !.si = @ + 1, !.pc = "fetch", !.rows = <<>>, !.i = 0,
                 !.job = NoJob]
  ELSE EndDay(r)

\* processDayForRows: the end of one iteration of the row loop.
NextRow(r) ==
  LET r0 == [r EXCEPT !.map = NoMap, !.campaignId = 0, !.rd = NoRead,
                      !.tries = 0]
  IN  IF r.i < Len(r.rows) THEN [r0 EXCEPT !.i = @ + 1, !.pc = "row"]
      ELSE NextSource(r0)

\* Variant: the loop goes on without counting the failure.
RowFailed_Uncounted(r) == NextRow(r)

\* processDayForRows: a row-level failure is counted and the loop goes on.
RowFailed(r) == NextRow([r EXCEPT !.dF = @ + 1])

AfterSpend_SkipTotals(r) == NextRow(r)

\* processDayForRows: the totals part of a row.
AfterSpend(r) ==
  IF HasDelta(r.rows[r.i]) THEN [r EXCEPT !.pc = "tget"] ELSE NextRow(r)

\* processDayForRows: the spend part of a row, once the campaign id is known.
AfterResolve(r, id) ==
  LET r1 == [r EXCEPT !.campaignId = id]
  IN  IF IsPositive(toMajorUnits(r.rows[r.i].spend))
      THEN [r1 EXCEPT !.pc = "spend"]
      ELSE AfterSpend(r1)

\* No function has been called on its own.
NoProbe == [fn |-> "none", args |-> <<>>, returned |-> FALSE, out |-> {}]

\* ------------------------------------------------------------------ state
VARIABLES
  crm,      \* per world: the CRM's campaign records
  mapFile,  \* per world: campaign-map.json, name -> id (0 = no entry)
  reports,  \* what each source returns for each day, {} until first fetched
  procs,    \* per process slot: the position and locals of one run of main()
  budget,   \* remaining run starts, injected HTTP failures, terminations,
            \* direct client calls; lag: the CRM's listing may be behind
            \* its writes
  probe     \* a function of the sources called on its own: its arguments
            \* and, once it has returned, its result

vars == <<crm, mapFile, reports, procs, budget, probe>>

Active(r) == r.pc \notin {"idle", "done", "killed"}

\* The "Done. Days=.. TotalsAdded=.. SpendItems=.. Failures=.." line of a
\* completed run, with the command line it belongs to.
Summary(r) ==
  [from |-> r.from, to |-> r.to, dryRun |-> r.dryRun, days |-> r.days,
   totalsAdded |-> r.totalsAdded, spendItems |-> r.spendItems,
   failures |-> r.failures]

\* The process p moves to r2.
Step(p, r2) == procs' = [procs EXCEPT ![p] = r2]

\* main() started in slot p over [f, t]: the locals of a new process at the
\* first date of the range.
Launch(p, w, f, t, dry) ==
  LET old == procs[p]
  IN  NextDay([IdleProc EXCEPT
        !.world = w, !.from = f, !.to = t, !.dryRun = dry,
        !.prev = IF old.pc = "done" THEN {Summary(old)} ELSE {},
        !.ranges = (IF old.pc = "killed" THEN old.ranges ELSE {}) \cup {<<f, t>>}])

\* An HTTP call either gets the CRM's answer or, while the failure budget
\* lasts, a 500.
FaultChoices == IF budget.faults > 0 THEN {FALSE, TRUE} ELSE {FALSE}

\* What a listing of the campaigns named `name` shows: the campaigns, or,
\* while the listing lags behind, possibly none of them yet.
ListingsOf(cs, name) ==
  IF budget.lag THEN {CrmIdsNamed(cs, name), {}} ELSE {CrmIdsNamed(cs, name)}
Charge(fault) ==
  budget' = IF fault THEN [budget EXCEPT !.faults = @ - 1] ELSE budget

InitWith(starts, faults, kills) ==
  /\ crm = [w \in Worlds |-> EmptyCrm]
  /\ mapFile = [w \in Worlds |-> NoMap]
  /\ reports = [d \in Calendar |-> {}]
  /\ procs = [p \in Procs |-> IdleProc]
  /\ budget = [starts |-> starts, faults |-> faults, kills |-> kills,
               calls |-> 0, lag |-> FALSE]
  /\ probe = NoProbe

\* ---------------------------------------------------------------- actions
\* main(): a run over a range [from, to] is started while no other run is
\* in progress (the single-writer operating model).
StartRun(p, w, dryFlags) ==
  /\ \A q \in Procs : ~Active(procs[q])
  /\ budget.starts > 0
  /\ \E f \in Dates, t \in Dates, dry \in dryFlags :
       /\ EpochDay(f) <= EpochDay(t)
       /\ Step(p, Launch(p, w, f, t, dry))
  /\ budget' = [budget EXCEPT !.starts = @ - 1]
  /\ UNCHANGED <<crm, mapFile, reports, probe>>

\* processDay: getBingRows / getTwitterRows for the current day.  A throw is
\* a day-level failure; an empty result is "no data (skipped)".
Fetch(p, choices) ==
  LET r   == procs[p]
  IN  /\ r.pc = "fetch"
      /\ \E fault \in FaultChoices :
           /\ Charge(fault)
           /\ IF fault
              THEN /\ Step(p, DayFailed([r EXCEPT !.ev = Event(r, "fetch", 500, "throw")]))
                   /\ UNCHANGED reports
              ELSE \E day \in (IF reports[r.ymd] = {} THEN choices
                               ELSE reports[r.ymd]) :
                     /\ reports' = [reports EXCEPT ![r.ymd] = {day}]
                     /\ LET r1   == [r EXCEPT !.ev = Event(r, "fetch", 200, "rows")]
                            rows == day[r.si]
                        IN  Step(p, IF rows = <<>> THEN NextSource(r1)
                                    ELSE [r1 EXCEPT !.rows = rows, !.i = 1,
                                                    !.pc = "row"])
      /\ UNCHANGED <<crm, mapFile, probe>>

BeginRow_NoDryRun(p) ==
  LET r    == procs[p]
      name == r.rows[r.i].campaignName
      map  == mapFile[r.world]
      r1   == [r EXCEPT !.ev = Event(r, "row", 0, "none")]
  IN  /\ r.pc = "row"
      /\ Step(p, IF name = "" THEN RowFailed(r1)
                 ELSE IF r.ensure THEN [r1 EXCEPT !.pc = "epre"]
                 ELSE IF map[name] # 0
                      THEN [r1 EXCEPT !.map = map, !.pc = "verify"]
                      ELSE [r1 EXCEPT !.map = map, !.pc = "find"])
      /\ UNCHANGED <<crm, mapFile, reports, budget, probe>>

\* processDayForRows / ensureCampaignIdForName up to the first CRM call:
\* name check, read of the map file, dry-run shortcut.
BeginRow(p) ==
  LET r    == procs[p]
      name == r.rows[r.i].campaignName
      map  == mapFile[r.world]
      r1   == [r EXCEPT !.ev = Event(r, "row", 0, "none")]
  IN  /\ r.pc = "row"
      /\ Step(p, IF name = "" THEN RowFailed(r1)
                 ELSE IF r.dryRun THEN NextRow(r1)
                 ELSE IF r.ensure THEN [r1 EXCEPT !.pc = "epre"]
                 ELSE IF map[name] # 0
                      THEN [r1 EXCEPT !.map = map, !.pc = "verify"]
                      ELSE [r1 EXCEPT !.map = map, !.pc = "find"])
      /\ UNCHANGED <<crm, mapFile, reports, budget, probe>>

\* ensureCampaignIdForName: hs.getCampaignById(mappedId)
Verify(p) ==
  LET r  == procs[p]
      id == r.map[r.rows[r.i].campaignName]
  IN  /\ r.pc = "verify"
      /\ \E fault \in FaultChoices :
           /\ Charge(fault)
           /\ LET st == IF fault THEN 500 ELSE CrmGetStatus(crm[r.world], id)
                  r1 == [r EXCEPT !.ev = Event(r, "get", st, "none")]
              IN  Step(p, IF st = 200 THEN AfterResolve(r1, id)
                          ELSE [r1 EXCEPT !.pc = "find"])
      /\ UNCHANGED <<crm, mapFile, reports, probe>>

\* ensureCampaignIdForName: hs.findCampaignByName(name).catch(() => null)
Find(p) ==
  LET r    == procs[p]
      name == r.rows[r.i].campaignName
  IN  /\ r.pc = "find"
      /\ \E fault \in FaultChoices :
           /\ Charge(fault)
           /\ \E seen \in ListingsOf(crm[r.world], name) :
                LET hits == IF fault THEN {} ELSE seen
                    r1   == [r EXCEPT !.ev = Event(r, "list", IF fault THEN 500 ELSE 200, "none")]
                IN  IF hits # {}
                    THEN LET id == CHOOSE h \in hits : \A g \in hits : h <= g
                         IN  Step(p, [r1 EXCEPT !.map[name] = id, !.campaignId = id,
                                                !.pc = "save"])
                    ELSE Step(p, [r1 EXCEPT !.pc = "create"])
      /\ UNCHANGED <<crm, mapFile, reports, probe>>

\* ensureCampaignIdForName: hs.createCampaign(name)
Create(p) ==
  LET r    == procs[p]
      name == r.rows[r.i].campaignName
      cs   == crm[r.world]
  IN  /\ r.pc = "create"
      /\ \E fault \in FaultChoices :
           /\ Charge(fault)
           /\ LET st == IF fault THEN 500 ELSE CrmCreateStatus(cs, name)
                  r1 == [r EXCEPT !.ev = Event(r, "create", st, IF st = 201 THEN "ok" ELSE "throw")]
              IN  IF st = 201
                  THEN LET id == CrmNewId(cs)
                       IN  /\ crm' = [crm EXCEPT ![r.world] = CrmCreate(cs, name)]
                           /\ Step(p, [r1 EXCEPT !.map[name] = id, !.campaignId = id,
                                                  !.pc = "save"])
                  ELSE /\ Step(p, RowFailed(r1))
                       /\ UNCHANGED crm
      /\ UNCHANGED <<mapFile, reports, probe>>

\* How the resolver came to the id it is about to save: a search hit or a
\* create.
ResolvedBy(r) == IF r.ev.op = "list" THEN "found" ELSE "created"

\* Variant: the map file is written with the new entry alone.
SaveMap_OnlyEntry(p) ==
  LET r    == procs[p]
      name == r.rows[r.i].campaignName
  IN  /\ r.pc = "save"
      /\ mapFile' = [mapFile EXCEPT ![r.world] = [NoMap EXCEPT ![name] = r.map[name]]]
      /\ Step(p, AfterResolve([r EXCEPT !.ev = Event(r, "save", 0, ResolvedBy(r))], r.campaignId))
      /\ UNCHANGED <<crm, reports, budget, probe>>

\* Variant: the id is returned without the map file being written.
SaveMap_NoWrite(p) ==
  LET r == procs[p]
  IN  /\ r.pc = "save"
      /\ Step(p, AfterResolve([r EXCEPT !.ev = Event(r, "save", 0, ResolvedBy(r))], r.campaignId))
      /\ UNCHANGED <<crm, mapFile, reports, budget, probe>>

\* ensureCampaignIdForName: map[name] = id; saveCampaignMap(map) writes the
\* whole map as this process read it at the start of the call, plus the entry.
SaveMap(p) ==
  LET r == procs[p]
  IN  /\ r.pc = "save"
      /\ mapFile' = [mapFile EXCEPT ![r.world] = r.map]
      /\ Step(p, AfterResolve([r EXCEPT !.ev = Event(r, "save", 0, ResolvedBy(r))], r.campaignId))
      /\ UNCHANGED <<crm, reports, budget, probe>>

\* processDayForRows: hs.createSpendItem(campaignId, {isoDate, amountMajor, source})
Spend(p) ==
  LET r    == procs[p]
      cs   == crm[r.world]
      body == SpendBody(r.ymd, toMajorUnits(r.rows[r.i].spend), SourceList[r.si])
  IN  /\ r.pc = "spend"
      /\ \E fault \in FaultChoices :
           /\ Charge(fault)
           /\ LET st == IF fault THEN 500 ELSE CrmSpendStatus(cs, r.campaignId, body)
                  r1 == [r EXCEPT !.ev =
                          [Event(r, "spend", st, IF SpendReturns(st) THEN "ok" ELSE "throw")
                             EXCEPT !.body = {body}]]
              IN  /\ crm' = IF st = 201
                            THEN [crm EXCEPT ![r.world] = CrmSpendAdd(cs, r.campaignId, body)]
                            ELSE crm
                  /\ Step(p, IF SpendReturns(st)
                             THEN AfterSpend([r1 EXCEPT !.dS = @ + 1])
                             ELSE AfterSpend([r1 EXCEPT !.dF = @ + 1]))
      /\ UNCHANGED <<mapFile, reports, probe>>

\* addDailyTotalsMonotonic: getTotalsAndLastDate and the marker guard.
TotalsGet(p) ==
  LET r  == procs[p]
      cs == crm[r.world]
  IN  /\ r.pc = "tget"
      /\ \E fault \in FaultChoices :
           /\ Charge(fault)
           /\ LET st == IF fault THEN 500 ELSE CrmGetStatus(cs, r.campaignId)
              IN  IF st # 200
                  THEN Step(p, RowFailed([r EXCEPT !.ev = Event(r, "tget", st, "throw")]))
                  ELSE LET rd == getTotalsAndLastDate(cs[r.campaignId])
                       IN  IF MonotonicSkip(rd, toEpochMillis(r.ymd))
                           THEN Step(p, NextRow([r EXCEPT !.ev = Event(r, "tget", st, "false")]))
                           ELSE Step(p, [r EXCEPT !.ev = Event(r, "tget", st, "none"),
                                                  !.rd = rd, !.pc = "tpatch"])
      /\ UNCHANGED <<crm, mapFile, reports, probe>>

\* addDailyTotalsMonotonic: patchCampaignProperties(campaignId, next)
TotalsPatch(p) ==
  LET r  == procs[p]
      cs == crm[r.world]
  IN  /\ r.pc = "tpatch"
      /\ \E fault \in FaultChoices :
           /\ Charge(fault)
           /\ LET st == IF fault THEN 500 ELSE CrmGetStatus(cs, r.campaignId)
              IN  IF st = 200
                  THEN /\ crm' = [crm EXCEPT ![r.world] =
                            CrmPatch(cs, r.campaignId,
                                     MonotonicNext(r.rd, RowDelta(r.rows[r.i]), r.ymd))]
                       /\ Step(p, NextRow([r EXCEPT !.ev = Event(r, "tpatch", st, "true"),
                                                   !.dT = @ + 1]))
                  ELSE /\ Step(p, RowFailed([r EXCEPT !.ev = Event(r, "tpatch", st, "throw")]))
                       /\ UNCHANGED crm
      /\ UNCHANGED <<mapFile, reports, probe>>

\* The process is terminated between two calls; nothing it holds survives.
\* With resumable = TRUE the ranges it was invoked with stay on record for
\* the invocation that resumes it.
Kill(p, resumable) ==
  /\ Active(procs[p])
  /\ budget.kills > 0
  /\ budget' = [budget EXCEPT !.kills = @ - 1]
  /\ procs' = [procs EXCEPT ![p] =
       [IdleProc EXCEPT !.pc = "killed", !.world = procs[p].world,
                        !.ranges = IF resumable THEN procs[p].ranges ELSE {}]]
  /\ UNCHANGED <<crm, mapFile, reports, probe>>

\* ---------------------------------------------- the client, called directly
\* One caller makes whole client calls, one after the other; slot 1 keeps
\* what the last call was and how it returned.
ApiDeltas ==
  { [clicks |-> 1, impressions |-> 3, conversions |-> 0],
    [clicks |-> 2, impressions |-> 0, conversions |-> 1] }

ApiEvent(op, st, ret, id, deltas, dateISO) ==
  [op |-> op, status |-> st, ret |-> ret, id |-> id, day |-> dateISO,
   row |-> {deltas}, body |-> {}]

ApiReturn(e) ==
  /\ budget.calls > 0
  /\ budget' = [budget EXCEPT !.calls = @ - 1]
  /\ procs' = [procs EXCEPT ![1].ev = e]
  /\ UNCHANGED <<mapFile, reports, probe>>

\* hs.addDailyTotalsMonotonic(id, {..deltas, dateISO})
CallAddDailyTotalsMonotonic(id, deltas, dateISO) ==
  LET cs == crm["live"]
      st == CrmGetStatus(cs, id)
      op == "addDailyTotalsMonotonic"
  IN  IF st # 200
      THEN ApiReturn(ApiEvent(op, st, "throw", id, deltas, dateISO)) /\ UNCHANGED crm
      ELSE LET rd == getTotalsAndLastDate(cs[id])
           IN  IF MonotonicSkip(rd, toEpochMillis(dateISO))
               THEN /\ ApiReturn(ApiEvent(op, st, "false", id, deltas, dateISO))
                    /\ UNCHANGED crm
               ELSE /\ ApiReturn(ApiEvent(op, st, "true", id, deltas, dateISO))
                    /\ crm' = [crm EXCEPT !["live"] =
                                 CrmPatch(cs, id, MonotonicNext(rd, deltas, dateISO))]

\* An unguarded additive call: hs.addTotals(id, deltas, dateISO) returns next,
\* hs.addTotalsDelta(id, deltas, dateISO) returns true.
UnguardedAdd(op, ret, id, deltas, dateISO) ==
  LET cs == crm["live"]
      st == CrmGetStatus(cs, id)
  IN  IF st # 200
      THEN ApiReturn(ApiEvent(op, st, "throw", id, deltas, dateISO)) /\ UNCHANGED crm
      ELSE /\ ApiReturn(ApiEvent(op, st, ret, id, deltas, dateISO))
           /\ crm' = [crm EXCEPT !["live"] =
                        CrmPatch(cs, id, AddTotalsNext(getTotals(cs[id]), deltas, dateISO))]

CallAddTotals(id, deltas, dateISO) ==
  UnguardedAdd("addTotals", "next", id, deltas, dateISO)

CallAddTotalsDelta(id, deltas, dateISO) ==
  UnguardedAdd("addTotalsDelta", "true", id, deltas, dateISO)

\* hs.setTotalsDirect(id, totals, dateISO)
CallSetTotalsDirect(id, totals, dateISO) ==
  LET cs == crm["live"]
      st == CrmGetStatus(cs, id)
      op == "setTotalsDirect"
  IN  IF st # 200
      THEN ApiReturn(ApiEvent(op, st, "throw", id, totals, dateISO)) /\ UNCHANGED crm
      ELSE /\ ApiReturn(ApiEvent(op, st, "true", id, totals, dateISO))
           /\ crm' = [crm EXCEPT !["live"] =
                        CrmPatch(cs, id, SetTotalsProps(totals, dateISO))]

RunStep(p, choices) ==
  \/ Fetch(p, choices)
  \/ BeginRow(p)
  \/ Verify(p)
  \/ Find(p)
  \/ Create(p)
  \/ SaveMap(p)
  \/ Spend(p)
  \/ TotalsGet(p)
  \/ TotalsPatch(p)

\* ------------------------------------------------------- specifications
\* One sync process at a time (the operating model of the orchestrator),
\* started again after it ends, dry or not; every HTTP call is answered.
Init == InitWith(MaxStarts, 0, 0)

Next ==
  \/ StartRun(1, "live", {FALSE, TRUE})
  \/ RunStep(1, DayReports)

Spec == Init /\ [][Next]_vars

\* The same with HTTP calls that may fail.
InitFaulty == InitWith(MaxStarts, MaxFaults, 0)

NextFaulty ==
  \/ StartRun(1, "live", {FALSE})
  \/ RunStep(1, CoreDayReports)

SpecFaulty == InitFaulty /\ [][NextFaulty]_vars

\* A run that is left alone - never terminated, no call failing - in a CRM
\* of its own ("ref"), first; then, in the "live" CRM, a run over the same
\* range that may be terminated between two steps and is then invoked again,
\* over any range.
InitResume == InitWith(0, 0, MaxKills)

StartReference ==
  /\ \A p \in Procs : procs[p].pc = "idle"
  /\ \E f \in Dates, t \in Dates :
       /\ EpochDay(f) <= EpochDay(t)
       /\ Step(2, Launch(2, "ref", f, t, FALSE))
  /\ UNCHANGED <<crm, mapFile, reports, budget, probe>>

StartResumable ==
  /\ procs[2].pc = "done"
  /\ procs[1].pc \in {"idle", "killed"}
  /\ \E f \in Dates, t \in Dates :
       /\ EpochDay(f) <= EpochDay(t)
       /\ procs[1].pc = "idle" => (f = procs[2].from /\ t = procs[2].to)
       /\ Step(1, Launch(1, "live", f, t, FALSE))
  /\ UNCHANGED <<crm, mapFile, reports, budget, probe>>

NextResume ==
  \/ StartReference
  \/ StartResumable
  \/ RunStep(1, DayReports)
  \/ RunStep(2, DayReports)
  \/ Kill(1, TRUE)

SpecResume == InitResume /\ [][NextResume]_vars

\* Two sync processes at the same time on the same CRM, over any two
\* ranges, each of which may be terminated and is then started again.
InitRace == InitWith(0, 0, MaxKills)

StartRace(p) ==
  /\ procs[p].pc \in {"idle", "killed"}
  /\ \E f \in Dates, t \in Dates :
       /\ EpochDay(f) <= EpochDay(t)
       /\ Step(p, Launch(p, "live", f, t, FALSE))
  /\ UNCHANGED <<crm, mapFile, reports, budget, probe>>

NextRace ==
  \E p \in Procs :
    \/ StartRace(p)
    \/ RunStep(p, RaceReports)
    \/ Kill(p, FALSE)

SpecRace == InitRace /\ [][NextRace]_vars

\* The client's totals operations called in any order of dates on a CRM
\* that holds campaign "A".
InitApi ==
  /\ crm = [w \in Worlds |-> CrmCreate(EmptyCrm, "A")]
  /\ mapFile = [w \in Worlds |-> NoMap]
  /\ reports = [d \in Calendar |-> {}]
  /\ procs = [p \in Procs |-> IdleProc]
  /\ budget = [starts |-> 0, faults |-> 0, kills |-> 0, calls |-> MaxCalls,
               lag |-> FALSE]
  /\ probe = NoProbe

NextApi ==
  \E id \in Ids, deltas \in ApiDeltas, dateISO \in Dates :
    \/ CallAddDailyTotalsMonotonic(id, deltas, dateISO)
    \/ CallAddTotals(id, deltas, dateISO)
    \/ CallAddTotalsDelta(id, deltas, dateISO)
    \/ CallSetTotalsDirect(id, deltas, dateISO)

SpecApi == InitApi /\ [][NextApi]_vars

\* A run whose rows carry any value of spend.
InitSpend == InitWith(MaxStarts, 0, 0)

NextSpend ==
  \/ StartRun(1, "live", {FALSE, TRUE})
  \/ RunStep(1, SpendProbeReports)

SpecSpend == InitSpend /\ [][NextSpend]_vars

\* ------------------------------------------------------------ properties
\* The running counters of a run, the current day's share included.
FailTally(r) == r.failures + r.dF
AddedTally(r) == r.totalsAdded + r.dT

\* The campaign on which process p's pending totals call operates.
Target(p) == crm[procs[p].world][procs[p].campaignId]

\* C1 - Monotonic replay safety: once the delta of a day d2 has been applied
\* to a campaign, a call of addDailyTotalsMonotonic for an earlier day d1
\* (whatever its delta) that reads the campaign returns false and leaves the
\* campaign's totals and marker as they were.
C1_ReplayIsNoOp ==
  [][\A p \in Procs :
       ( /\ procs[p].pc = "tget"
         /\ procs'[p].ev.op = "tget"
         /\ procs'[p].ev.status = 200
         /\ \E d2 \in Dates : /\ Target(p).prov[d2] > 0
                              /\ EpochDay(procs[p].ymd) < EpochDay(d2) )
       => ( /\ procs'[p].ev.ret = "false"
            /\ procs'[p].pc # "tpatch"
            /\ crm' = crm )]_vars

C1_Witness ==
  \E p \in Procs, d2 \in Dates :
    /\ procs[p].ev.op = "tget"
    /\ procs[p].ev.ret = "false"
    /\ crm[procs[p].world][procs[p].ev.id].prov[d2] > 0
    /\ EpochDay(procs[p].ev.day) < EpochDay(d2)

\* C6 - Guard on equal-or-earlier day: when the campaign read by the totals
\* call has a marker m and the day d of the call is not after m (d = m
\* included), no PATCH follows, the call returns false without throwing, and
\* the run counts neither a totals update nor a failure for it.
C6_GuardSkips ==
  [][\A p \in Procs :
       ( /\ procs[p].pc = "tget"
         /\ procs'[p].ev.op = "tget"
         /\ procs'[p].ev.status = 200
         /\ Target(p).last # <<>>
         /\ toEpochMillis(procs[p].ymd) <= Target(p).last[1] )
       => ( /\ procs'[p].ev.ret = "false"
            /\ procs'[p].pc # "tpatch"
            /\ crm' = crm
            /\ AddedTally(procs'[p]) = AddedTally(procs[p])
            /\ FailTally(procs'[p]) = FailTally(procs[p]) )]_vars

C6_Witness ==
  \E p \in Procs :
    /\ procs[p].ev.op = "tget"
    /\ procs[p].ev.ret = "false"
    /\ crm[procs[p].world][procs[p].ev.id].last = <<toEpochMillis(procs[p].ev.day)>>

\* C8 - One ledger entry per campaign-day: the key of every ledger entry is
\* the integer YYYYMMDD of the entry's date, two different dates never get
\* the same key, and no campaign holds two entries for one date.
C8_OneEntryPerDay ==
  /\ \A d1 \in Dates, d2 \in Dates : d1 # d2 => SpendOrder(d1) # SpendOrder(d2)
  /\ \A w \in Worlds, id \in Ids :
       \A e1 \in crm[w][id].spend :
         /\ LET iso == IsoOfEpochDay(e1.date)
            IN  e1.order = iso[1] * 10000 + iso[2] * 100 + iso[3]
         /\ \A e2 \in crm[w][id].spend : e1.date = e2.date => e1 = e2
  /\ \A p \in Procs :
       (procs[p].ev.op = "spend" /\ procs[p].ev.ret = "ok")
       => Cardinality({ e \in crm[procs[p].world][procs[p].ev.id].spend :
                          e.date = toEpochMillis(procs[p].ev.day) }) = 1

C8_Witness ==
  \E p \in Procs :
    /\ procs[p].ev.op = "spend"
    /\ procs[p].ev.status = 409
    /\ \E e \in crm[procs[p].world][procs[p].ev.id].spend :
         /\ e.date = toEpochMillis(procs[p].ev.day)
         /\ \E b \in procs[p].ev.body : b.amount = e.amount

\* C9 - Spend conflict is success: a 409 answer to the spend create makes
\* createSpendItem return normally, leaves the ledger unchanged and adds no
\* failure; any status other than 201 and 409 makes it throw, which the row
\* loop counts as exactly one failure.
C9_SpendConflictIsSuccess ==
  [][\A p \in Procs :
       (procs[p].pc = "spend" /\ procs'[p].ev.op = "spend")
       => /\ procs'[p].ev.status = 409
               => ( /\ procs'[p].ev.ret = "ok"
                    /\ crm' = crm
                    /\ FailTally(procs'[p]) = FailTally(procs[p]) )
          /\ procs'[p].ev.status \notin {201, 409}
               => ( /\ procs'[p].ev.ret = "throw"
                    /\ crm' = crm
                    /\ FailTally(procs'[p]) = FailTally(procs[p]) + 1 )]_vars

C9_Witness ==
  \E p \in Procs :
    /\ procs[p].ev.op = "spend"
    /\ procs[p].ev.status = 409
    /\ procs[p].ev.ret = "ok"
    /\ FailTally(procs[p]) = 0

\* Process p is running, and the run before it was a completed non-dry run
\* over the same range.
IsRerun(p) ==
  /\ Active(procs[p])
  /\ \E last \in procs[p].prev :
       /\ ~last.dryRun
       /\ last.from = procs[p].from
       /\ last.to = procs[p].to

\* No step changes a campaign's totals or marker in world w.
TotalsUntouched(w) ==
  \A id \in Ids :
    /\ crm'[w][id].clicks = crm[w][id].clicks
    /\ crm'[w][id].imps = crm[w][id].imps
    /\ crm'[w][id].convs = crm[w][id].convs
    /\ crm'[w][id].last = crm[w][id].last

\* A totals call for a day past the campaign's marker goes on to the PATCH,
\* and the PATCH adds the row's delta, moves the marker to the day and is
\* counted as one totals update.
NewDayIsApplied(p) ==
  /\ ( /\ procs[p].pc = "tget"
       /\ procs'[p].ev.op = "tget"
       /\ procs'[p].ev.status = 200
       /\ (Target(p).last = <<>> \/ Target(p).last[1] < toEpochMillis(procs[p].ymd)) )
     => procs'[p].pc = "tpatch"
  /\ ( /\ procs[p].pc = "tpatch"
       /\ procs'[p].ev.op = "tpatch"
       /\ procs'[p].ev.status = 200 )
     => LET row == procs[p].rows[procs[p].i]
            old == Target(p)
            new == crm'[procs[p].world][procs[p].campaignId]
        IN  /\ StrToNum(new.clicks) = StrToNum(old.clicks) + row.clicks
            /\ StrToNum(new.imps) = StrToNum(old.imps) + row.impressions
            /\ StrToNum(new.convs) = StrToNum(old.convs) + row.conversions
            /\ new.last = <<toEpochMillis(procs[p].ymd)>>
            /\ AddedTally(procs'[p]) = AddedTally(procs[p]) + 1

\* C2 as stated - after a non-dry run over [from, to] has completed, a run
\* over the same range changes no campaign's totals or marker and reports
\* TotalsAdded = 0, while a day past the marker is still applied.
C2_RerunAfterAnyCompletedRun ==
  [][\A p \in Procs :
       /\ IsRerun(p) => ( /\ TotalsUntouched(procs[p].world)
                          /\ AddedTally(procs'[p]) = 0 )
       /\ NewDayIsApplied(p)]_vars

\* C2 amended - after a non-dry run over [from, to] has completed with
\* Failures = 0, a run over the same range changes no campaign's totals or
\* marker and reports TotalsAdded = 0, while a day past the marker is still
\* applied.
C2_RerunIsNoOp ==
  [][\A p \in Procs :
       /\ (IsRerun(p) /\ \A last \in procs[p].prev : last.failures = 0)
            => ( /\ TotalsUntouched(procs[p].world)
                 /\ AddedTally(procs'[p]) = 0 )
       /\ NewDayIsApplied(p)]_vars

\* A re-run after a run that applied totals and had no failure has come to
\* its end, having skipped a day that the run before had applied.
C2_Witness ==
  \E p \in Procs :
    /\ procs[p].pc = "done"
    /\ ~procs[p].dryRun
    /\ procs[p].days > 0
    /\ procs[p].totalsAdded = 0
    /\ procs[p].failures = 0
    /\ \E last \in procs[p].prev :
         /\ ~last.dryRun
         /\ last.failures = 0
         /\ last.totalsAdded > 0
         /\ last.from = procs[p].from
         /\ last.to = procs[p].to

\* What the claim compares of one campaign: totals, marker, ledger entries.
Outcome(c) ==
  [clicks |-> StrToNum(c.clicks), imps |-> StrToNum(c.imps),
   convs |-> StrToNum(c.convs), last |-> c.last, spend |-> c.spend]

Overlaps(a, b) ==
  /\ EpochDay(a[1]) <= EpochDay(b[2])
  /\ EpochDay(b[1]) <= EpochDay(a[2])

\* The range of the uninterrupted run.
RefRange == <<procs[2].from, procs[2].to>>

\* The reference run over a range is complete, the live run over that range
\* was terminated, and what was invoked after it has come to its end.
Resumed ==
  /\ procs[2].pc = "done"
  /\ procs[1].pc = "done"
  /\ budget.kills < MaxKills

\* C4 as stated - a run over [from, to] terminated between two calls and
\* then re-invoked over the same or an overlapping range ends with the
\* totals, marker and ledger entries of one uninterrupted run over [from, to].
C4_ResumeOverlapping ==
  (Resumed /\ \A rg \in procs[1].ranges : Overlaps(rg, RefRange))
  => \A id \in Ids : Outcome(crm["live"][id]) = Outcome(crm["ref"][id])

\* C4 amended - a run over [from, to] terminated between two calls and then
\* re-invoked over the same range ends with the totals, marker and ledger
\* entries of one uninterrupted run over [from, to].
C4_ResumeSameRange ==
  (Resumed /\ procs[1].ranges = {RefRange})
  => \A id \in Ids : Outcome(crm["live"][id]) = Outcome(crm["ref"][id])

\* A resumed run over the same range has ended: it applied totals and
\* created ledger entries, but fewer than the uninterrupted run, the
\* terminated run having done the others.
C4_Witness ==
  /\ Resumed
  /\ procs[1].ranges = {RefRange}
  /\ procs[1].totalsAdded > 0
  /\ procs[1].totalsAdded < procs[2].totalsAdded
  /\ procs[1].ev.op # "none"
  /\ \E id \in Ids : crm["ref"][id].last # <<>> /\ crm["ref"][id].spend # {}
  /\ \A id \in Ids : Outcome(crm["live"][id]) = Outcome(crm["ref"][id])

\* C3 - At-most-once application under concurrency: with two sync processes
\* running overlapping ranges on the same campaign, in every interleaving of
\* their GETs and PATCHes and under any termination and restart of either,
\* the totals of a campaign never contain one day's delta more than once.
C3_AtMostOncePerDay ==
  \A id \in Ids, d \in Dates : crm["live"][id].prov[d] <= 1

\* Both processes have read the same campaign for the same day before either
\* wrote, and both have written.
C3_Witness ==
  /\ procs[1].ev.op = "tpatch"
  /\ procs[2].ev.op = "tpatch"
  /\ procs[1].ev.ret = "true"
  /\ procs[2].ev.ret = "true"
  /\ procs[1].ev.id = procs[2].ev.id
  /\ procs[1].ev.day = procs[2].ev.day
  /\ crm["live"][procs[1].ev.id].prov[procs[1].ev.day] = 1
  /\ budget.kills < MaxKills

\* The stored marker as a number, 0 while the property is not set.
Marker(c) == IF c.last # <<>> THEN c.last[1] ELSE 0

Totals(c) == <<c.clicks, c.imps, c.convs>>

LastCall == procs[1].ev

Applied(e) == e.ret \in {"true", "next"}

\* C5 - Marker monotonicity: across any sequence of successful totals
\* applications made through the client, in any order of dates, the stored
\* last-processed date of a campaign never decreases, and after a successful
\* application for day d the marker equals d.
C5_MarkerMonotonic ==
  [][ \A id \in Ids :
        /\ Marker(crm'["live"][id]) >= Marker(crm["live"][id])
        /\ (budget'.calls < budget.calls /\ Applied(LastCall') /\ LastCall'.id = id)
             => Marker(crm'["live"][id]) = toEpochMillis(LastCall'.day) ]_vars

AdditiveOps == {"addDailyTotalsMonotonic", "addTotals", "addTotalsDelta"}

\* C7 - No unconditional-add path: every additive totals operation of the
\* client checks the day against the marker before writing, so the second of
\* two calls with the same (campaignId, date, delta) leaves the totals as the
\* first call left them.
C7_SecondCallAddsNothing ==
  [][ ( /\ budget.calls < MaxCalls
        /\ budget'.calls < budget.calls
        /\ LastCall.op \in AdditiveOps
        /\ Applied(LastCall)
        /\ LastCall'.op = LastCall.op
        /\ LastCall'.id = LastCall.id
        /\ LastCall'.day = LastCall.day
        /\ LastCall'.row = LastCall.row
        /\ LastCall'.ret # "throw" )
      => Totals(crm'["live"][LastCall.id]) = Totals(crm["live"][LastCall.id]) ]_vars

\* The amount of a spend request in thousandths is a positive multiple of a
\* hundredth and within half a hundredth of the row's spend.
ValidAmount(body, row) ==
  /\ body.amount.k = "num"
  /\ body.amount.v > 0
  /\ body.amount.v % 10 = 0
  /\ row.spend.k = "num"
  /\ body.amount.v - row.spend.v <= 5
  /\ row.spend.v - body.amount.v <= 5

\* C10 - Spend amount validity: every spend create request the orchestrator
\* issues carries an amount that is finite, strictly greater than 0, in major
\* units and rounded to 2 decimal places; a row whose rounded spend is 0,
\* negative or not a number issues no spend request.
C10_SpendAmountValid ==
  \A p \in Procs :
    procs[p].ev.op = "spend" =>
      \A body \in procs[p].ev.body, row \in procs[p].ev.row : ValidAmount(body, row)

\* ------------------------------------------------- end-to-end accumulation
\* Days with no rows, and days whose rows are well-formed records (a name,
\* spend in hundredths): one campaign from Bing, two campaigns from the two
\* networks, and one campaign reported by both networks on the same day.
AccumReports ==
  { << <<>>, <<>> >>,
    << <<Row("A", 30, 10, 1, Num(12500))>>, <<>> >>,
    << <<Row("A", 0, 5, 0, Num(0))>>, <<Row("B", 2, 1, 1, Num(500))>> >>,
    << <<Row("A", 3, 1, 0, Num(1250))>>, <<Row("A", 1, 1, 0, Num(500))>> >> }

\* One non-dry run on an empty CRM, every HTTP call answered.
InitAccum == InitWith(1, 0, 0)

NextAccum ==
  \/ StartRun(1, "live", {FALSE})
  \/ RunStep(1, AccumReports)

SpecAccum == InitAccum /\ [][NextAccum]_vars

\* The rows both sources returned for day d, once the day has been fetched.
RowsOfDay(d) ==
  IF reports[d] = {} THEN <<>>
  ELSE LET day == CHOOSE x \in reports[d] : TRUE IN day[1] \o day[2]

\* The rows of campaign `name` among rows.
NamedRows(rows, name) == SelectSeq(rows, LAMBDA row : row.campaignName = name)

RECURSIVE SumOver(_, _)
SumOver(rows, metric) ==
  IF rows = <<>> THEN 0 ELSE Head(rows)[metric] + SumOver(Tail(rows), metric)

\* All rows of the days ds, in the order of the days.
RECURSIVE RowsOfDays(_)
RowsOfDays(ds) ==
  IF ds = <<>> THEN <<>> ELSE RowsOfDay(Head(ds)) \o RowsOfDays(Tail(ds))

\* The epoch milliseconds of the last day of ds with a non-zero row of
\* campaign `name`, 0 when there is none.
RECURSIVE LastNonZeroDay(_, _)
LastNonZeroDay(ds, name) ==
  IF ds = <<>> THEN 0
  ELSE LET d == ds[Len(ds)]
       IN  IF \E i \in 1 .. Len(RowsOfDay(d)) :
                /\ RowsOfDay(d)[i].campaignName = name
                /\ HasDelta(RowsOfDay(d)[i])
           THEN toEpochMillis(d)
           ELSE LastNonZeroDay(SubSeq(ds, 1, Len(ds) - 1), name)

\* The run r has ended, and what it left for campaign `name` is the sum of the
\* campaign's rows, the marker of its last non-zero day, and one spend
\* attempt per row with spend > 0.
Accumulated(r, name) ==
  LET ds   == eachDate(r.from, r.to)
      mine == NamedRows(RowsOfDays(ds), name)
      ids  == CrmIdsNamed(crm[r.world], name)
  IN  IF mine = <<>> THEN ids = {}
      ELSE /\ Cardinality(ids) = 1
           /\ \A id \in ids :
                LET got == getTotalsAndLastDate(crm[r.world][id])
                IN  /\ got.clicks = SumOver(mine, "clicks")
                    /\ got.imps = SumOver(mine, "impressions")
                    /\ got.convs = SumOver(mine, "conversions")
                    /\ got.lastMs = LastNonZeroDay(ds, name)

SpendAttemptsExpected(r) ==
  Len(SelectSeq(RowsOfDays(eachDate(r.from, r.to)),
                LAMBDA row : row.spend.k = "num" /\ row.spend.v > 0))

\* No day of the run has two rows for one campaign.
OneRowPerCampaignDay(r) ==
  \A d \in Dates, name \in Names : Len(NamedRows(RowsOfDay(d), name)) <= 1

CleanRunDone(r) == r.pc = "done" /\ ~r.dryRun /\ r.failures = 0

\* C11 (as claimed) - End-to-end accumulation: after a run on a CRM without
\* markers in which no call failed, every campaign's totals are the sums of
\* its rows over all days of the range, its marker is the last day with a
\* non-zero row, and one spend write was attempted per row with spend > 0.
C11_EndToEnd ==
  \A p \in Procs :
    CleanRunDone(procs[p]) =>
      /\ \A name \in Names : Accumulated(procs[p], name)
      /\ procs[p].spendItems = SpendAttemptsExpected(procs[p])

\* C11 (amended) - the same, for runs in which no day has two rows for one
\* campaign.
C11_EndToEndOneRowPerDay ==
  \A p \in Procs :
    (CleanRunDone(procs[p]) /\ OneRowPerCampaignDay(procs[p])) =>
      /\ \A name \in Names : Accumulated(procs[p], name)
      /\ procs[p].spendItems = SpendAttemptsExpected(procs[p])

\* A run over more than one day, one of them without rows, that left
\* campaign "A" with the 10 clicks of its only non-zero day and one spend
\* attempt.
C11_Witness ==
  \E p \in Procs :
    /\ CleanRunDone(procs[p])
    /\ OneRowPerCampaignDay(procs[p])
    /\ procs[p].days > 1
    /\ \E d \in Dates : reports[d] = { << <<>>, <<>> >> }
    /\ \E id \in Ids :
         /\ crm["live"][id].name = "A"
         /\ getTotalsAndLastDate(crm["live"][id]).clicks = 10
         /\ crm["live"][id].last # <<>>
    /\ procs[p].spendItems = 1

\* ------------------------------------------------------ resolver and cache
\* The name the resolver call of process record r is for.
ResolveName(r) == r.rows[r.i].campaignName

\* In this step ensureCampaignIdForName of process p returns an id: the
\* cached id verified by GET, or the id just saved after a search hit or a
\* create.
ResolveReturns(p) ==
  \/ /\ procs[p].pc = "verify"
     /\ procs'[p].ev.op = "get"
     /\ procs'[p].ev.status = 200
  \/ /\ procs[p].pc = "save"
     /\ procs'[p].ev.op = "save"

\* The id the call returns in such a step.
ResolvedId(p) ==
  IF procs[p].pc = "verify" THEN procs[p].map[ResolveName(procs[p])]
  ELSE procs[p].campaignId

\* C14 - Cache write-back: whenever a non-dry-run call of the resolver returns
\* an id (verified cache hit, search hit or create), the persistent
\* name-to-id cache maps the name to exactly that id when the call returns.
C14_CacheWriteBack ==
  [][\A p \in Procs :
       ResolveReturns(p) =>
         /\ ResolvedId(p) \in Ids
         /\ mapFile'[procs[p].world][ResolveName(procs[p])] = ResolvedId(p)]_vars

\* A call that returned the id of a search hit, with the cache holding it.
C14_Witness ==
  \E p \in Procs :
    /\ procs[p].ev.op = "save"
    /\ procs[p].ev.ret = "found"
    /\ \E row \in procs[p].ev.row :
         mapFile[procs[p].world][row.campaignName] = procs[p].ev.id
    /\ procs[p].ev.id \in Ids

\* ---------------------------------------------------------- stale cache
\* delete-campaigns-by-name.js between two runs: the campaign of that name is
\* deleted in the CRM, while the CRM has an id left for creating it again.
\* The map file is not touched.
DeleteByName(w, name) ==
  /\ \A q \in Procs : ~Active(procs[q])
  /\ \E free \in Ids : ~CrmIdUsed(crm[w], free)
  /\ \E id \in CrmIdsNamed(crm[w], name) :
       crm' = [crm EXCEPT ![w] = CrmDelete(crm[w], id)]
  /\ UNCHANGED <<mapFile, reports, procs, budget, probe>>

\* Runs one after the other with HTTP calls that may fail, and campaigns
\* deleted in the CRM between them.
InitStale == InitWith(MaxStarts, MaxFaults, 0)

NextStale ==
  \/ StartRun(1, "live", {FALSE})
  \/ RunStep(1, RaceReports)
  \/ \E name \in Names : DeleteByName("live", name)

SpecStale == InitStale /\ [][NextStale]_vars

\* The id the map file held for the name when the resolver call of p began.
CachedId(p) == procs[p].map[ResolveName(procs[p])]

\* The resolver call of p is past the verification of a cached id whose
\* campaign no longer exists in the CRM.
PastStaleVerify(p) ==
  /\ procs[p].pc \in {"find", "create"}
  /\ CachedId(p) # 0
  /\ CrmGetStatus(crm[procs[p].world], CachedId(p)) # 200

\* C15 - Stale cache repair: when the cached id of a name fails verification
\* by GET, the resolver goes on to search and then create, never returns
\* that id, and the stale entry is out of the persistent cache when the call
\* ends, even when the rest of the resolution fails.
C15_StaleEntryRemoved ==
  [][\A p \in Procs :
       PastStaleVerify(p) =>
         /\ procs[p].pc = "find" => procs'[p].pc \in {"create", "save"}
         /\ procs'[p].pc = "save" => procs'[p].campaignId # CachedId(p)
         /\ procs'[p].ev.ret = "throw"
              => mapFile'[procs[p].world][ResolveName(procs[p])] # CachedId(p)]_vars

\* ------------------------------------------- the client's ensureCampaign
\* ensureCampaign: const maxRetries = 15
maxRetries == 15

\* Variant: the same delay before every retry.
RetryDelay_Fixed(i) == 1000

\* ensureCampaign: const delay = 1000 + i * 250
RetryDelay(i) == 1000 + i * 250

\* The least of the listed ids (the listing is in id order; find() takes the
\* first match).
FirstOf(hits) == CHOOSE h \in hits : \A g \in hits : h <= g

\* ensureCampaign, step 1: findCampaignByName(name, {maxSweeps: 1}).  A hit
\* is returned; a failing list call throws out of ensureCampaign into the
\* row loop's catch.
EnsureFind(p) ==
  LET r    == procs[p]
      name == r.rows[r.i].campaignName
  IN  /\ r.pc = "epre"
      /\ \E fault \in FaultChoices :
           /\ Charge(fault)
           /\ \E seen \in ListingsOf(crm[r.world], name) :
                IF fault
                THEN Step(p, RowFailed([r EXCEPT !.ev = Event(r, "list", 500, "throw")]))
                ELSE IF seen # {}
                THEN Step(p, AfterResolve([r EXCEPT !.ev = Event(r, "list", 200, "ok")],
                                          FirstOf(seen)))
                ELSE Step(p, [r EXCEPT !.ev = Event(r, "list", 200, "none"),
                                       !.pc = "ecreate"])
      /\ UNCHANGED <<crm, mapFile, reports, probe>>

\* ensureCampaign, step 2: createCampaign(name).  201 returns the new
\* campaign, 409 enters the retry loop, any other status throws.
EnsureCreate(p) ==
  LET r    == procs[p]
      name == r.rows[r.i].campaignName
      cs   == crm[r.world]
  IN  /\ r.pc = "ecreate"
      /\ \E fault \in FaultChoices :
           /\ Charge(fault)
           /\ LET st == IF fault THEN 500 ELSE CrmCreateStatus(cs, name)
              IN  IF st = 201
                  THEN /\ crm' = [crm EXCEPT ![r.world] = CrmCreate(cs, name)]
                       /\ Step(p, AfterResolve([r EXCEPT !.ev = Event(r, "create", st, "ok")],
                                               CrmNewId(cs)))
                  ELSE /\ UNCHANGED crm
                       /\ IF st = 409
                          THEN Step(p, [r EXCEPT !.ev = Event(r, "create", st, "none"),
                                                 !.tries = 0, !.pc = "eretry"])
                          ELSE Step(p, RowFailed([r EXCEPT !.ev = Event(r, "create", st, "throw")]))
      /\ UNCHANGED <<mapFile, reports, probe>>

\* ensureCampaign, step 3, one iteration of `for (i = 0; i < maxRetries; i++)`:
\* sleep(delay), then findCampaignByName again; the first hit is returned,
\* and after the last miss the "could not find" error is thrown.  The event
\* keeps the delay slept, the number of the attempt and what the search saw.
EnsureRetry(p) ==
  LET r    == procs[p]
      name == r.rows[r.i].campaignName
      e(st, ret, seen) ==
        [Event(r, "retry", st, ret) EXCEPT !.body =
           {[delay |-> RetryDelay(r.tries), attempt |-> r.tries + 1, seen |-> seen]}]
  IN  /\ r.pc = "eretry"
      /\ r.tries < maxRetries
      /\ \E fault \in FaultChoices :
           /\ Charge(fault)
           /\ \E seen \in ListingsOf(crm[r.world], name) :
                IF fault
                THEN Step(p, RowFailed([r EXCEPT !.ev = e(500, "throw", {})]))
                ELSE IF seen # {}
                THEN Step(p, AfterResolve([r EXCEPT !.ev = e(200, "ok", seen)], FirstOf(seen)))
                ELSE IF r.tries + 1 < maxRetries
                THEN Step(p, [r EXCEPT !.ev = e(200, "none", seen), !.tries = @ + 1])
                ELSE Step(p, RowFailed([r EXCEPT !.ev = e(200, "exhausted", seen)]))
      /\ UNCHANGED <<crm, mapFile, reports, probe>>

EnsureStep(p) ==
  \/ EnsureFind(p)
  \/ EnsureCreate(p)
  \/ EnsureRetry(p)

\* A run whose row loop calls hs.ensureCampaign(name) inside its try/catch
\* (as processBingDay of backfill-all.backup.js does) in place of
\* ensureCampaignIdForName.
StartEnsureRun(p, w) ==
  /\ \A q \in Procs : ~Active(procs[q])
  /\ budget.starts > 0
  /\ \E f \in Dates, t \in Dates :
       /\ EpochDay(f) <= EpochDay(t)
       /\ Step(p, [Launch(p, w, f, t, FALSE) EXCEPT !.ensure = TRUE])
  /\ budget' = [budget EXCEPT !.starts = @ - 1]
  /\ UNCHANGED <<crm, mapFile, reports, probe>>

\* One run, with either resolver, against a CRM whose listing may be behind
\* its writes and whose calls may fail.
InitLag ==
  /\ crm = [w \in Worlds |-> EmptyCrm]
  /\ mapFile = [w \in Worlds |-> NoMap]
  /\ reports = [d \in Calendar |-> {}]
  /\ procs = [p \in Procs |-> IdleProc]
  /\ budget = [starts |-> 1, faults |-> MaxFaults, kills |-> 0,
               calls |-> 0, lag |-> TRUE]
  /\ probe = NoProbe

NextLag ==
  \/ StartRun(1, "live", {FALSE})
  \/ StartEnsureRun(1, "live")
  \/ RunStep(1, RaceReports)
  \/ EnsureStep(1)

SpecLag == InitLag /\ [][NextLag]_vars

C12_ConflictTolerant ==
  [][\A p \in Procs :
       LET r  == procs[p]
           r2 == procs'[p]
       IN  /\ ( /\ r.pc \in {"create", "ecreate"}
                /\ r2.ev.op = "create"
                /\ r2.ev.status = 409 )
              => ( /\ r2.ev.ret # "throw"
                   /\ FailTally(r2) = FailTally(r) )
           /\ ( /\ r.pc = "eretry"
                /\ r2.ev.op = "retry"
                /\ r2.ev.ret = "ok" )
              => r2.campaignId \in CrmIdsNamed(crm[r.world], ResolveName(r))]_vars

\* ------------------------------------------- the client's name search
\* Campaign names as texts (sequences of characters).
NameTexts == { <<"A">>, <<"a">>, <<"A", " ">>, <<"B">> }

UpperCase ==
  <<"A", "B", "C", "D", "E", "F", "G", "H", "I", "J", "K", "L", "M", "N", "O", "P", "Q", "R", "S", "T", "U", "V", "W", "X", "Y", "Z">>

LowerCase ==
  <<"a", "b", "c", "d", "e", "f", "g", "h", "i", "j", "k", "l", "m", "n", "o", "p", "q", "r", "s", "t", "u", "v", "w", "x", "y", "z">>

\* String.prototype.toLowerCase, character by character.
LowerChar(c) ==
  IF \E i \in 1 .. Len(UpperCase) : UpperCase[i] = c
  THEN LowerCase[CHOOSE i \in 1 .. Len(UpperCase) : UpperCase[i] = c]
  ELSE c

toLowerCase(s) == [i \in 1 .. Len(s) |-> LowerChar(s[i])]

\* The white space String.prototype.trim removes, of the characters in use.
WhiteSpace == {" ", "\t", "\r"}

\* String.prototype.trim
RECURSIVE trim(_)
trim(s) ==
  IF s = <<>> THEN s
  ELSE IF Head(s) \in WhiteSpace THEN trim(Tail(s))
  ELSE IF s[Len(s)] \in WhiteSpace THEN trim(SubSeq(s, 1, Len(s) - 1))
  ELSE s

\* findCampaignByNameOnce: (c.properties.hs_name || '').trim().toLowerCase()
\* === String(name || '').trim().toLowerCase()
SameName(hsName, name) == toLowerCase(trim(hsName)) = toLowerCase(trim(name))

\* findCampaignByName's defaults: { maxSweeps = 1, maxPages = 50 }
DefaultMaxSweeps == 1
DefaultMaxPages == 50

\* One listing of the CRM (GET /marketing/v3/campaigns with archived = false
\* or true): n pages, of which only the campaigns at `entries` matter here;
\* the other places hold campaigns with names of their own.
PageNumbers == {1, 2, DefaultMaxPages, DefaultMaxPages + 1}

ListedCampaigns ==
  { [page |-> k, pos |-> j, id |-> 10 * k + j, hs_name |-> t] :
      k \in PageNumbers, j \in {1, 2}, t \in NameTexts }

Listings ==
  { [n |-> n, entries |-> es] :
      n \in PageNumbers,
      es \in {{}} \cup { {c, d} : c \in ListedCampaigns, d \in ListedCampaigns } }

ArchivedListings ==
  { [n |-> 1, entries |-> {}],
    [n |-> 1, entries |-> {[page |-> 1, pos |-> 1, id |-> 91, hs_name |-> <<"A">>]}] }

\* listCampaignsPage: the matching candidates of page k in listing order, and
\* whether the page carries paging.next.after.
PageResults(l, k) == { c \in l.entries : c.page = k }
HasNext(l, k) == k < l.n

\* (data.results || []).find(...): the first campaign of the page with the
\* same name.
FindInPage(l, k, name) ==
  LET hits == { c \in PageResults(l, k) : SameName(c.hs_name, name) }
  IN  { c \in hits : \A d \in hits : c.pos <= d.pos }

\* findCampaignByNameOnce: `while (pages < maxPages)` from page k on.
RECURSIVE findOnceFrom(_, _, _, _, _)
findOnceFrom(l, name, k, pages, maxPages) ==
  IF pages >= maxPages THEN {}
  ELSE IF FindInPage(l, k, name) # {} THEN FindInPage(l, k, name)
  ELSE IF ~HasNext(l, k) THEN {}
  ELSE findOnceFrom(l, name, k + 1, pages + 1, maxPages)

findCampaignByNameOnce(l, name, maxPages) ==
  findOnceFrom(l, name, 1, 0, maxPages)

\* findCampaignByName: non-archived first, then archived, maxSweeps times.
RECURSIVE findSweeps(_, _, _, _, _)
findSweeps(live, archived, name, sweep, opts) ==
  IF sweep >= opts.maxSweeps THEN {}
  ELSE IF findCampaignByNameOnce(live, name, opts.maxPages) # {}
       THEN findCampaignByNameOnce(live, name, opts.maxPages)
  ELSE IF findCampaignByNameOnce(archived, name, opts.maxPages) # {}
       THEN findCampaignByNameOnce(archived, name, opts.maxPages)
  ELSE findSweeps(live, archived, name, sweep + 1, opts)

findCampaignByName(live, archived, name) ==
  findSweeps(live, archived, name, 0,
             [maxSweeps |-> DefaultMaxSweeps, maxPages |-> DefaultMaxPages])

\* findCampaignByName(name) called on its own against a CRM with the two
\* listings.
InitFind ==
  /\ InitWith(0, 0, 0)!1
  /\ InitWith(0, 0, 0)!2
  /\ InitWith(0, 0, 0)!3
  /\ InitWith(0, 0, 0)!4
  /\ InitWith(0, 0, 0)!5
  /\ \E live \in Listings, archived \in ArchivedListings, name \in NameTexts :
       /\ \A c \in live.entries : c.page <= live.n
       /\ \A c \in live.entries, d \in live.entries :
            (c.page = d.page /\ c.pos = d.pos) => c = d
       /\ probe = [NoProbe EXCEPT
                     !.fn = "findCampaignByName",
                     !.args = [live |-> live, archived |-> archived, name |-> name]]

CallFindCampaignByName ==
  /\ probe.fn = "findCampaignByName"
  /\ ~probe.returned
  /\ probe' = [probe EXCEPT
       !.returned = TRUE,
       !.out = findCampaignByName(probe.args.live, probe.args.archived, probe.args.name)]
  /\ UNCHANGED <<crm, mapFile, reports, procs, budget>>

NextFind == CallFindCampaignByName

SpecFind == InitFind /\ [][NextFind]_vars

\* All campaigns on all pages of the two listings of the call.
AllListed == probe.args.live.entries \cup probe.args.archived.entries

\* C16 - Exact, exhaustive name search: findCampaignByName returns a campaign
\* if and only if some campaign on some page of the CRM listing has a name
\* exactly equal to the requested name, whatever the number of pages, and the
\* campaign it returns has exactly the requested name.
C16_ExactExhaustiveSearch ==
  (probe.fn = "findCampaignByName" /\ probe.returned) =>
    /\ probe.out # {} <=> \E c \in AllListed : c.hs_name = probe.args.name
    /\ \A c \in probe.out : c.hs_name = probe.args.name

\* ------------------------------------------ the Bing report job client
\* An HTTP answer carries its status; status 0 stands for no response at all
\* (a network error, or axios' own timeout).
\* axios' default validateStatus: the promise rejects unless the status is 2xx.
AxiosDefaultOk(status) == status >= 200 /\ status < 300

\* submitReport's validateStatus: s => s < 500 || s === 429
SubmitStatusOk(status) == status # 0 /\ (status < 500 \/ status = 429)

TOTAL_TIMEOUT_MS == 12 * 60 * 1000
POLL_INTERVAL_MS == 5000
\* await sleep(4000) between the two submit attempts
SubmitRetrySleep == 4000
\* timeout: 30000 of the poll request
PollRequestTimeout == 30000

\* What the token endpoint may answer.
TokenAnswers ==
  { [status |-> 200, token |-> TRUE], [status |-> 200, token |-> FALSE],
    [status |-> 400, token |-> FALSE], [status |-> 0, token |-> FALSE] }

\* getAccessToken returns the access token (TRUE) or throws (FALSE).
TokenReturned(a) == AxiosDefaultOk(a.status) /\ a.status = 200 /\ a.token

\* What the Submit endpoint may answer: with or without a ReportRequestId,
\* and with or without error 2010 (InvalidCustomDateRangeEnd) in the body.
SubmitAnswers ==
  { [status |-> 200, id |-> TRUE, code2010 |-> FALSE],
    [status |-> 200, id |-> FALSE, code2010 |-> FALSE],
    [status |-> 400, id |-> FALSE, code2010 |-> TRUE],
    [status |-> 400, id |-> FALSE, code2010 |-> FALSE],
    [status |-> 429, id |-> FALSE, code2010 |-> FALSE],
    [status |-> 500, id |-> FALSE, code2010 |-> FALSE],
    [status |-> 0, id |-> FALSE, code2010 |-> FALSE] }

\* attemptSubmit: "id" when it returns the request id; else what it throws:
\* "body", its own Error with the response body in the message, or "axios",
\* the rejection of the request.
attemptSubmit(a) ==
  IF ~SubmitStatusOk(a.status) THEN "axios"
  ELSE IF a.status = 200 /\ a.id THEN "id"
  ELSE "body"

IsInvalidRange_Never(a) == FALSE

\* msg.includes('InvalidCustomDateRangeEnd') || msg.includes('"Code":2010')
IsInvalidRange(a) == attemptSubmit(a) = "body" /\ a.code2010

MayRetry_Twice(attempts) == attempts < 2

\* submitReport: the catch of the first attempt holds the one other attempt;
\* attempts is the number of attempts that failed before.
MayRetry(attempts) == attempts < 1

\* getCampaignSummaryForDate, first call: getAccessToken.
GetAccessToken(p) ==
  LET r == procs[p]
  IN  /\ r.pc = "fetch"
      /\ r.si = 1
      /\ \E a \in TokenAnswers :
           Step(p, IF TokenReturned(a)
                   THEN [r EXCEPT !.ev = Event(r, "token", a.status, "token"),
                                  !.pc = "submit"]
                   ELSE DayFailed([r EXCEPT
                          !.ev = Event(r, "token", a.status, "throw")]))
      /\ UNCHANGED <<crm, mapFile, reports, budget, probe>>

\* submitReport: one attempt.  The request id leads on to the poll; error
\* 2010 returns null (the day has no rows); another failure of the first
\* attempt sleeps and tries again, of the second attempt is thrown.
SubmitReport(p) ==
  LET r == procs[p]
  IN  /\ r.pc = "submit"
      /\ \E a \in SubmitAnswers :
           LET n   == r.job.attempts + 1
               ret == IF attemptSubmit(a) = "id" THEN "id"
                      ELSE IF IsInvalidRange(a) THEN "empty"
                      ELSE IF MayRetry(r.job.attempts) THEN "retry"
                      ELSE "throw"
               e   == [Event(r, "submit", a.status, ret) EXCEPT !.body =
                         {[attempt |-> n, code2010 |-> a.code2010,
                           slept |-> IF ret = "retry" THEN SubmitRetrySleep
                                     ELSE 0]}]
               r1  == [r EXCEPT !.ev = e, !.job.attempts = n]
           IN  Step(p, CASE ret = "id"    -> [r1 EXCEPT !.pc = "poll"]
                         [] ret = "empty" -> NextSource(r1)
                         [] ret = "retry" -> r1
                         [] OTHER         -> DayFailed(r1))
      /\ UNCHANGED <<crm, mapFile, reports, budget, probe>>

\* What the Poll endpoint may answer.
PollAnswers ==
  { [status |-> 200, state |-> "Success", url |-> TRUE],
    [status |-> 200, state |-> "Success", url |-> FALSE],
    [status |-> 200, state |-> "Failed", url |-> FALSE],
    [status |-> 200, state |-> "Error", url |-> FALSE],
    [status |-> 200, state |-> "Pending", url |-> FALSE],
    [status |-> 500, state |-> "none", url |-> FALSE],
    [status |-> 0, state |-> "none", url |-> FALSE] }

\* The time one poll request may take.
PollLatencies == {0, PollRequestTimeout}

PollGivesUp_ErrorOnly(state) == state = "Error"

\* status === 'Error' || status === 'Failed'
PollGivesUp(state) == state = "Error" \/ state = "Failed"

\* Variant: twice the total timeout is allowed.
TimedOut_Twice(elapsed) == elapsed > 2 * TOTAL_TIMEOUT_MS

\* Date.now() - startedAt > TOTAL_TIMEOUT_MS
TimedOut(elapsed) == elapsed > TOTAL_TIMEOUT_MS

\* pollForUrl: one iteration of its loop.
PollForUrl(p) ==
  LET r == procs[p]
  IN  /\ r.pc = "poll"
      /\ \E a \in PollAnswers, lat \in PollLatencies :
           LET t   == r.job.elapsed + lat
               ret == IF ~AxiosDefaultOk(a.status) THEN "throw"
                      ELSE IF a.status = 200 /\ a.state = "Success"
                           THEN (IF a.url THEN "url" ELSE "empty")
                      ELSE IF a.status = 200 /\ PollGivesUp(a.state) THEN "empty"
                      ELSE IF TimedOut(t) THEN "empty"
                      ELSE "again"
               e   == [Event(r, "poll", a.status, ret) EXCEPT !.body =
                         {[state |-> a.state, url |-> a.url, elapsed |-> t]}]
               r1  == [r EXCEPT !.ev = e, !.job.elapsed = t]
           IN  Step(p, CASE ret = "throw" -> DayFailed(r1)
                         [] ret = "url"   -> [r1 EXCEPT !.pc = "download"]
                         [] ret = "empty" -> NextSource(r1)
                         [] OTHER         ->
                              [r1 EXCEPT !.job.elapsed = t + POLL_INTERVAL_MS])
      /\ UNCHANGED <<crm, mapFile, reports, budget, probe>>

\* The texts a report download may hold: nothing, the day's report, a single
\* line, a few lines without the header row, many lines without it.
CsvTexts == {"", "report", "oneLine", "preamble", "noHeader"}

\* What the download URL may answer: a status and, with 200, the text plain,
\* zipped or gzipped, the archive intact or not.
DownloadAnswers ==
  { [status |-> 200, wrap |-> w, intact |-> i, text |-> t] :
      w \in {"plain", "zip", "gzip"}, i \in BOOLEAN, t \in CsvTexts }
  \cup { [status |-> s, wrap |-> "plain", intact |-> TRUE, text |-> ""] :
           s \in {204, 401, 403, 500, 0} }

\* res.status === 403 || res.status === 401
WantsBearer(status) == status = 403 \/ status = 401

\* The answers the second request of downloadCsv may get after the answer a
\* to the first; a itself where no second request is made.
SecondAnswers(a) ==
  IF AxiosDefaultOk(a.status) /\ WantsBearer(a.status) THEN DownloadAnswers
  ELSE {a}

\* downloadCsv with the answer a to its request without credentials and, if
\* it makes the request with the bearer token, the answer a2 to that: the
\* text it returns, or that it throws and in which call; the requests it
\* made and the status of the last answer.
downloadCsv(a, a2) ==
  LET again == AxiosDefaultOk(a.status) /\ WantsBearer(a.status)
      res   == IF again THEN a2 ELSE a
      made  == [requests |-> IF again THEN 2 ELSE 1, bearer |-> again,
                first |-> a.status, last |-> res.status]
  IN  IF ~AxiosDefaultOk(res.status)
      THEN [threw |-> "request", csv |-> "", made |-> made]
      ELSE IF res.status # 200 THEN [threw |-> "none", csv |-> "", made |-> made]
      ELSE IF res.wrap \in {"zip", "gzip"} /\ ~res.intact
           THEN [threw |-> "decode", csv |-> "", made |-> made]
      ELSE [threw |-> "none", csv |-> res.text, made |-> made]

\* parseDailyCsv on a text of each kind: the rows of the report, no row for
\* fewer than two lines or a short text without the header row, a throw for
\* a longer text without it.
ParsedCsv(text, rows) ==
  IF text = "report" THEN [threw |-> "none", rows |-> rows]
  ELSE IF text = "noHeader" THEN [threw |-> "parse", rows |-> <<>>]
  ELSE [threw |-> "none", rows |-> <<>>]

\* getCampaignSummaryForDate from downloadCsv on: the download, `if (!csv)
\* return []`, parseDailyCsv.
DownloadCsv(p, choices) ==
  LET r == procs[p]
  IN  /\ r.pc = "download"
      /\ \E a \in DownloadAnswers :
         \E a2 \in SecondAnswers(a) :
         \E day \in (IF reports[r.ymd] = {} THEN choices ELSE reports[r.ymd]) :
           LET got   == downloadCsv(a, a2)
               pars  == IF got.threw = "none" /\ got.csv # ""
                        THEN ParsedCsv(got.csv, day[r.si])
                        ELSE [threw |-> got.threw, rows |-> <<>>]
               ret   == IF pars.threw # "none" THEN "throw"
                        ELSE IF pars.rows = <<>> THEN "empty"
                        ELSE "rows"
               e     == [Event(r, "download", got.made.last, ret) EXCEPT
                           !.body = {[threw |-> pars.threw, made |-> got.made]}]
               r1    == [r EXCEPT !.ev = e]
           IN  /\ reports' = IF ret = "rows"
                             THEN [reports EXCEPT ![r.ymd] = {day}]
                             ELSE reports
               /\ Step(p, CASE ret = "throw" -> DayFailed(r1)
                            [] ret = "empty" -> NextSource(r1)
                            [] OTHER         ->
                                 [r1 EXCEPT !.rows = pars.rows, !.i = 1,
                                            !.pc = "row"])
      /\ UNCHANGED <<crm, mapFile, budget, probe>>

\* getTwitterRows for the current day.
FetchTwitter(p, choices) == procs[p].si = 2 /\ Fetch(p, choices)

\* processDayForRows on the rows of a source.
RowStep(p) ==
  \/ BeginRow(p)
  \/ Verify(p)
  \/ Find(p)
  \/ Create(p)
  \/ SaveMap(p)
  \/ Spend(p)
  \/ TotalsGet(p)
  \/ TotalsPatch(p)

\* One run of the orchestrator with the Bing fetch in its steps; the CRM
\* answers every call.
InitJob == InitWith(1, 0, 0)

NextJob ==
  \/ StartRun(1, "live", {FALSE})
  \/ GetAccessToken(1)
  \/ SubmitReport(1)
  \/ PollForUrl(1)
  \/ DownloadCsv(1, RaceReports)
  \/ FetchTwitter(1, RaceReports)
  \/ RowStep(1)

SpecJob == InitJob /\ [][NextJob]_vars

\* C17 - Soft skip on error 2010: when the Submit endpoint rejects the
\* request with the invalid-date-range error, on the first attempt or on the
\* retry, the Bing fetch returns no rows: no poll and no download follow, no
\* exception reaches the orchestrator, the failure counter stays as it was
\* and the day goes on with the next source.
C17_SoftSkipInvalidRange ==
  [][\A p \in Procs :
       ( /\ procs[p].pc = "submit"
         /\ procs'[p] # procs[p]
         /\ \E b \in procs'[p].ev.body : b.code2010 )
       => LET r  == procs[p]
              r2 == procs'[p]
          IN  /\ r2.ev.op = "submit"
              /\ r2.ev.ret = "empty"
              /\ r2.pc = "fetch" /\ r2.si = 2 /\ r2.ymd = r.ymd
              /\ r2.rows = <<>>
              /\ r2.failures = r.failures
              /\ FailTally(r2) = FailTally(r)
              /\ reports' = reports]_vars

\* The retry of a submit was rejected with error 2010 and the day went on
\* without a failure.
C17_Witness ==
  \E p \in Procs :
    /\ procs[p].ev.op = "submit"
    /\ procs[p].ev.ret = "empty"
    /\ \E b \in procs[p].ev.body : b.code2010 /\ b.attempt = 2
    /\ procs[p].pc = "fetch" /\ procs[p].si = 2
    /\ FailTally(procs[p]) = 0

\* C18 - Single submit retry: a submit attempt that fails with another error
\* than 2010 is followed, when it was the first, by exactly one more attempt
\* after the fixed sleep of 4000 ms and without a failure counted; no day
\* sees a third attempt; when the second attempt fails as well the error is
\* thrown, the orchestrator counts one failure for the day and goes on with
\* the next date (or ends the run after the last).
C18_SingleSubmitRetry ==
  [][\A p \in Procs :
       (procs[p].pc = "submit" /\ procs'[p] # procs[p])
       => LET r  == procs[p]
              r2 == procs'[p]
          IN  \A b \in r2.ev.body :
                /\ b.attempt <= 2
                /\ b.attempt = IF r.ev.op = "submit" THEN 2 ELSE 1
                /\ (r2.ev.ret \in {"retry", "throw"}) <=>
                     (r2.ev.ret # "id" /\ ~b.code2010)
                /\ r2.ev.ret = "retry" <=>
                     (r2.ev.ret \in {"retry", "throw"} /\ b.attempt = 1)
                /\ r2.ev.ret = "retry" =>
                     /\ b.slept = 4000
                     /\ r2.pc = "submit" /\ r2.ymd = r.ymd
                     /\ FailTally(r2) = FailTally(r)
                /\ r2.ev.ret = "throw" =>
                     /\ b.attempt = 2
                     /\ r2.failures = r.failures + 1
                     /\ FailTally(r2) = FailTally(r) + 1
                     /\ r2.days = r.days
                     /\ IF r.di < Len(eachDate(r.from, r.to))
                        THEN r2.pc = "fetch" /\ r2.si = 1 /\ r2.di = r.di + 1
                        ELSE r2.pc = "done"]_vars

\* Both submit attempts of the first day failed: one failure is counted and
\* the run is at the fetch of the second day.
C18_Witness ==
  \E p \in Procs :
    /\ procs[p].ev.op = "submit"
    /\ procs[p].ev.ret = "throw"
    /\ \E b \in procs[p].ev.body : b.attempt = 2
    /\ procs[p].failures = 1
    /\ procs[p].pc = "fetch" /\ procs[p].di = 2

\* Every date the day loop has left is counted, as processed or as failed.
DaysAccounted ==
  \A p \in Procs :
    LET r == procs[p]
    IN  r.pc # "idle" =>
          r.days + r.failures = (IF r.pc = "done" THEN r.di ELSE r.di - 1)

\* C19 - Soft poll outcomes: when a poll answers Success without a download
\* URL, or Failed or Error, or finds the job still pending after more than
\* TOTAL_TIMEOUT_MS, the Bing fetch returns no rows: no download follows, no
\* exception is raised, no failure is counted and the day goes on with the
\* next source; every day that did not throw is counted as processed.
C19_SoftPollOutcomes ==
  /\ []DaysAccounted
  /\ [][\A p \in Procs :
         (procs[p].pc = "poll" /\ procs'[p] # procs[p])
         => LET r  == procs[p]
                r2 == procs'[p]
            IN  \A b \in r2.ev.body :
                  ( /\ r2.ev.status = 200
                    /\ \/ b.state = "Success" /\ ~b.url
                       \/ b.state \in {"Failed", "Error"}
                       \/ b.state = "Pending" /\ b.elapsed > TOTAL_TIMEOUT_MS )
                  => /\ r2.ev.ret = "empty"
                     /\ r2.pc = "fetch" /\ r2.si = 2 /\ r2.ymd = r.ymd
                     /\ r2.rows = <<>>
                     /\ r2.failures = r.failures
                     /\ FailTally(r2) = FailTally(r)
                     /\ reports' = reports]_vars

\* The job was still pending when the total timeout had elapsed, and the
\* day went on without a failure.
C19_Witness ==
  \E p \in Procs :
    /\ procs[p].ev.op = "poll"
    /\ procs[p].ev.ret = "empty"
    /\ \E b \in procs[p].ev.body :
         b.state = "Pending" /\ b.elapsed > TOTAL_TIMEOUT_MS
    /\ procs[p].pc = "fetch" /\ procs[p].si = 2
    /\ FailTally(procs[p]) = 0

\* C20 - Only decoding is a hard error: a token request, a poll or a
\* download of one day's fetch throws to the caller only when the decoding
\* or the parsing of a downloaded payload fails; a failed token request, a
\* poll answered with an HTTP error and a failed download request give an
\* empty row set for the day.
C20_OnlyDecodingThrows ==
  [][\A p \in Procs :
       ( /\ procs'[p] # procs[p]
         /\ \/ procs[p].pc = "fetch" /\ procs[p].si = 1
            \/ procs[p].pc \in {"poll", "download"} )
       => LET r  == procs[p]
              r2 == procs'[p]
          IN  /\ r2.ev.ret = "throw" =>
                   /\ r2.ev.op = "download"
                   /\ \E b \in r2.ev.body : b.threw \in {"decode", "parse"}
              /\ FailTally(r2) > FailTally(r) => r2.ev.op = "download"]_vars

\* C21 - Download credential fallback: downloadCsv requests the URL without
\* credentials first; it makes one more request, with the bearer token, if
\* and only if the first was answered 401 or 403; it never makes more than
\* two requests; and when the last answer is not a 200 it returns an empty
\* payload (the fetch gives no rows and does not throw).
C21_DownloadFallback ==
  [][\A p \in Procs :
       (procs[p].pc = "download" /\ procs'[p] # procs[p])
       => \A b \in procs'[p].ev.body :
            /\ b.made.requests <= 2
            /\ b.made.requests = 2 <=> b.made.first \in {401, 403}
            /\ b.made.bearer <=> b.made.requests = 2
            /\ b.made.last # 200 => procs'[p].ev.ret = "empty"]_vars

\* ------------------------------------------------------------ date order
\* main() started with any --from and --to of the calendar, from > to
\* included.
StartAnyRange(p, w) ==
  /\ \A q \in Procs : ~Active(procs[q])
  /\ budget.starts > 0
  /\ \E f \in Dates, t \in Dates : Step(p, Launch(p, w, f, t, FALSE))
  /\ budget' = [budget EXCEPT !.starts = @ - 1]
  /\ UNCHANGED <<crm, mapFile, reports, probe>>

\* Runs over any range, one after the other, with HTTP calls that may fail.
InitOrder == InitWith(MaxStarts, MaxFaults, 0)

NextOrder ==
  \/ StartAnyRange(1, "live")
  \/ RunStep(1, RaceReports)

SpecOrder == InitOrder /\ [][NextOrder]_vars

\* The step from r to r2 ends the processing of r's date: its fetch threw,
\* or the last source had no rows or the last row of the last source is
\* through.
DayOver(r, r2) ==
  \/ r.pc = "fetch" /\ r2.ev.op = "fetch" /\ r2.ev.ret = "throw"
  \/ /\ r.si = Len(SourceList)
     /\ \/ r.pc = "fetch" /\ r2.ev.op = "fetch" /\ r2.ev.ret = "rows"
        \/ r.pc # "fetch" /\ r.i = Len(r.rows)

\* C22 - Date order: a run processes the dates of [from, to] one by one in
\* ascending calendar order, each once: it begins with `from`, goes from a
\* date to the day after it and only when that date's processing (every row
\* of the last source, or a thrown fetch) is over, and ends after `to`;
\* every totals update is issued for the date the loop is at, so a
\* campaign's updates come in non-decreasing date order; a run with
\* from > to processes no date.
C22_DateOrder ==
  [][\A p \in Procs :
       LET r  == procs[p]
           r2 == procs'[p]
       IN  /\ (~Active(r) /\ r2 # r) =>
                IF EpochDay(r2.from) > EpochDay(r2.to)
                THEN r2.pc = "done" /\ r2.di = 0 /\ r2.days = 0
                     /\ r2.ev = NoEvent
                ELSE r2.pc = "fetch" /\ r2.ymd = r2.from /\ r2.di = 1
                     /\ r2.si = 1
           /\ (Active(r) /\ r2 # r /\ r2.pc # "killed") =>
                /\ r2.from = r.from /\ r2.to = r.to
                /\ r2.ymd # r.ymd =>
                     /\ EpochDay(r2.ymd) = EpochDay(r.ymd) + 1
                     /\ EpochDay(r2.ymd) <= EpochDay(r.to)
                     /\ r2.di = r.di + 1
                     /\ r2.pc = "fetch" /\ r2.si = 1
                     /\ DayOver(r, r2)
                /\ r2.pc = "done" => r.ymd = r.to /\ DayOver(r, r2)
                /\ (r2.ymd = r.ymd /\ r2.pc # "done") => r2.di = r.di
                /\ r.pc = "tpatch" => r2.ev.day = r.ymd]_vars

\* A run over two dates has completed with both counted, and the run after
\* it, started with from > to, is done without a date.
C22_Witness ==
  \E p \in Procs :
    /\ procs[p].pc = "done"
    /\ EpochDay(procs[p].from) > EpochDay(procs[p].to)
    /\ procs[p].days = 0 /\ procs[p].failures = 0
    /\ \E s \in procs[p].prev :
         /\ EpochDay(s.from) < EpochDay(s.to)
         /\ s.days = EpochDay(s.to) - EpochDay(s.from) + 1

\* ------------------------------------------------------ failure isolation
\* One run over the full reports (two campaigns, a nameless row, rows without
\* spend or metrics) with up to two HTTP calls failing.
InitIsolate == InitWith(1, 2, 0)

NextIsolate ==
  \/ StartRun(1, "live", {FALSE})
  \/ RunStep(1, DayReports)

SpecIsolate == InitIsolate /\ [][NextIsolate]_vars

\* C23 - Failure isolation: whichever fetch, resolve, spend or totals call
\* throws, the failures the run has counted go up by exactly one and the
\* loops go on: after a thrown fetch with the next date (or the summary),
\* after a failed spend write with the totals of the same row, after any
\* other thrown call with the next row, the next source or the next date.
C23_FailureIsolation ==
  [][\A p \in Procs :
       LET r  == procs[p]
           r2 == procs'[p]
       IN  (Active(r) /\ r2 # r /\ r2.ev.ret = "throw") =>
             /\ FailTally(r2) = FailTally(r) + 1
             /\ r2.pc \in {"fetch", "row", "tget", "done"}
             /\ r2.from = r.from /\ r2.to = r.to
             /\ IF r.pc = "fetch"
                THEN IF r.di < Len(eachDate(r.from, r.to))
                     THEN r2.pc = "fetch" /\ r2.di = r.di + 1
                     ELSE r2.pc = "done"
                ELSE \/ r2.rows = r.rows /\ r2.i = r.i + 1 /\ r2.pc = "row"
                     \/ r2.rows = r.rows /\ r2.i = r.i /\ r.pc = "spend"
                        /\ r2.pc = "tget"
                     \/ r.i = Len(r.rows) /\ r2.pc \in {"fetch", "done"}
                        /\ (r2.ymd = r.ymd => r2.si = r.si + 1)]_vars

\* C24 - Spend/totals independence: once the campaign of a row is resolved,
\* the spend write is made when the row's spend is positive, and whether
\* that write succeeded, failed or was not made, the totals update of the
\* same row is attempted next when the row has a non-zero metric; a resolve
\* that throws goes on with the next row, without spend write and without
\* totals update for the row.
C24_SpendTotalsIndependent ==
  [][\A p \in Procs :
       LET r   == procs[p]
           r2  == procs'[p]
           row == r.rows[r.i]
           sameRow == r2.rows = r.rows /\ r2.i = r.i /\ r2.ymd = r.ymd
                      /\ r2.si = r.si
       IN  /\ (r.pc = "spend" /\ r2 # r) =>
                /\ r2.ev.op = "spend"
                /\ HasDelta(row) =>
                     /\ sameRow /\ r2.pc = "tget"
                     /\ r2.campaignId = r.campaignId
                /\ ~HasDelta(row) => ~(sameRow /\ r2.pc \in {"tget", "tpatch"})
           /\ ResolveReturns(p) =>
                /\ IsPositive(toMajorUnits(row.spend)) => sameRow /\ r2.pc = "spend"
                /\ (~IsPositive(toMajorUnits(row.spend)) /\ HasDelta(row)) =>
                     sameRow /\ r2.pc = "tget"
                /\ r2.pc \in {"spend", "tget"} => r2.campaignId = ResolvedId(p)
           /\ (r.pc \in {"find", "create"} /\ r2 # r /\ r2.ev.ret = "throw") =>
                /\ ~sameRow
                /\ crm' = crm]_vars

\* The spend write of a row failed and the run is at the totals update of
\* the same row.
C24_Witness ==
  \E p \in Procs :
    /\ procs[p].ev.op = "spend"
    /\ procs[p].ev.ret = "throw"
    /\ procs[p].pc = "tget"
    /\ procs[p].ev.row = {procs[p].rows[procs[p].i]}
    /\ procs[p].dF >= 1

\* C25 - Dry run writes nothing: every step of a run started with --dryRun
\* leaves the CRM (campaigns, properties, spend items) and the map file as
\* they are and makes no CRM call at all; the run still fetches the report
\* of every date and goes through its rows.
C25_DryRunWritesNothing ==
  [][\A p \in Procs :
       LET r  == procs[p]
           r2 == procs'[p]
       IN  (Active(r) /\ r.dryRun /\ r2 # r) =>
             /\ crm' = crm
             /\ mapFile' = mapFile
             /\ r2.dryRun
             /\ r.pc \in {"fetch", "row"}
             /\ r2.pc \in {"fetch", "row", "done"}
             /\ r2.ev.op \in {"fetch", "row"}
             /\ r2.dT = 0 /\ r2.dS = 0
             /\ r.pc = "fetch" => reports'[r.ymd] # {}
             /\ r2.pc = "done" =>
                  /\ r2.days = Len(eachDate(r.from, r.to))
                  /\ r2.totalsAdded = 0 /\ r2.spendItems = 0]_vars

\* A dry run over two dates, both with rows in the Bing report, is done and
\* the CRM and the map file are empty.
C25_Witness ==
  \E p \in Procs :
    /\ procs[p].pc = "done"
    /\ procs[p].dryRun
    /\ procs[p].days = 2
    /\ \A d \in {procs[p].from, procs[p].to} :
         \E day \in reports[d] : Len(day[1]) > 0
    /\ crm["live"] = EmptyCrm
    /\ mapFile["live"] = NoMap

\* The step leaves what the run has written so far in place: no map entry is
\* dropped, no campaign and no spend item is removed, and only the campaign
\* the step is made for may change.
KeepsEarlierResults(r, r2) ==
  /\ \A n \in Names :
       mapFile[r.world][n] # 0 => mapFile'[r.world][n] # 0
  /\ \A id \in Ids :
       LET c  == crm[r.world][id]
           c2 == crm'[r.world][id]
       IN  /\ c.exists => c2.exists /\ c2.name = c.name
           /\ c.spend \subseteq c2.spend
           /\ (c.exists /\ id # r2.ev.id) => c2 = c

\* C26 - Earlier results survive later failures: a step in which a fetch,
\* resolve, spend or totals call fails changes neither the CRM nor the map
\* file, and no step of a run drops a map entry, removes a campaign or a
\* spend item, or changes a campaign other than the one of its row; so what
\* was written for earlier days and for other rows stays as written.
C26_EarlierResultsSurvive ==
  [][\A p \in Procs :
       LET r  == procs[p]
           r2 == procs'[p]
       IN  (Active(r) /\ r2 # r) =>
             /\ r2.ev.ret = "throw" => crm' = crm /\ mapFile' = mapFile
             /\ KeepsEarlierResults(r, r2)]_vars

\* On the second day the totals update of a row failed; the campaigns, the
\* spend item and the map entries of the first day are in place.
C26_Witness ==
  \E p \in Procs :
    /\ procs[p].ev.ret = "throw"
    /\ procs[p].ev.op \in {"tget", "tpatch"}
    /\ procs[p].di = 2
    /\ procs[p].ev.day = procs[p].to
    /\ \E id \in Ids :
         /\ crm["live"][id].exists
         /\ crm["live"][id].spend # {}
         /\ \E b \in crm["live"][id].spend : b.date = toEpochMillis(procs[p].from)
         /\ crm["live"][id].last = <<toEpochMillis(procs[p].from)>>
         /\ mapFile["live"][crm["live"][id].name] = id

\* ------------------------------------- retry loops of backfill-range.js
\* The requests of one client call are counted up to MaxRequests; from there
\* on the count stands for "MaxRequests or more".
MaxRequests == 3

\* The --maxRetries and --pauseMs a run may be started with.
RangeOpts ==
  { [maxRetries |-> m, pauseMs |-> ms] : m \in {1, 3}, ms \in {1500, 6000} }

\* buildDateRange(startStr, endStr), for start <= end.
buildDateRange(startStr, endStr) == eachDate(startStr, endStr)

\* main of backfill-range.js: `for (const d of dates)` takes its next date,
\* or the summary is printed.
NextSyncDay(r) ==
  LET ds == buildDateRange(r.from, r.to)
      r0 == [r EXCEPT !.tries = 0, !.job = NoJob]
  IN  IF r.di < Len(ds)
      THEN [r0 EXCEPT !.di = @ + 1, !.ymd = ds[r.di + 1], !.pc = "sync"]
      ELSE [r0 EXCEPT !.pc = "done"]

\* node backfill-range.js --start=.. --end=.. [--maxRetries=..] [--pauseMs=..]
StartBackfillRange(p) ==
  /\ \A q \in Procs : ~Active(procs[q])
  /\ budget.starts > 0
  /\ \E f \in Dates, t \in Dates, o \in RangeOpts :
       /\ EpochDay(f) <= EpochDay(t)
       /\ Step(p, NextSyncDay([IdleProc EXCEPT !.from = f, !.to = t,
                                               !.opts = o]))
  /\ budget' = [budget EXCEPT !.starts = @ - 1]
  /\ UNCHANGED <<crm, mapFile, reports, probe>>

\* Math.min(pauseMs * attempt, 10_000)
RetryWait(pauseMs, attempt) ==
  IF pauseMs * attempt < 10000 THEN pauseMs * attempt ELSE 10000

\* main of backfill-range.js: one pass of `while (attempt < maxRetries &&
\* !success)`.  syncBingForDate throws when the report fetch throws, returns
\* at once for a day without items, and else goes to the CRM through the
\* client of createHubSpotClient (its per-item errors are caught).
SyncAttempt(p) ==
  LET r       == procs[p]
      attempt == r.tries + 1
  IN  /\ r.pc = "sync"
      /\ r.tries < r.opts.maxRetries
      /\ \E outcome \in {"throw", "empty", "items"} :
           LET again == outcome = "throw" /\ attempt < r.opts.maxRetries
               e == [Event(r, "sync", 0, outcome) EXCEPT !.body =
                       {[attempt |-> attempt,
                         wait |-> IF again THEN RetryWait(r.opts.pauseMs, attempt)
                                  ELSE 0]}]
               r1 == [r EXCEPT !.ev = e, !.tries = attempt]
           IN  Step(p, CASE outcome = "items" -> [r1 EXCEPT !.pc = "request"]
                         [] outcome = "empty" -> NextSyncDay([r1 EXCEPT !.days = @ + 1])
                         [] again             -> r1
                         [] OTHER             ->
                              NextSyncDay([r1 EXCEPT !.failures = @ + 1]))
      /\ UNCHANGED <<crm, mapFile, reports, budget, probe>>

\* createHubSpotClient: validateStatus: (s) => s < 500 || s === 429
HsStatusOk(status) == status # 0 /\ (status < 500 \/ status = 429)

\* the response interceptor: res.status === 429 || res.status >= 500
ShouldRetry(status) == status = 429 \/ status >= 500

\* The retry-after header of an answer: absent, a number, or not a number.
RetryAfterHeaders == {"", "0", "2", "soon"}

\* Number(res.headers["retry-after"] || 1), then (retryAfter || 1) * 1000
RetryAfterMs(header) == IF header = "2" THEN 2000 ELSE 1000

\* One request of a client call: axios rejects the answer, or the response
\* interceptor waits and sends the request again, or the answer is returned.
HsRequest(p) ==
  LET r == procs[p]
  IN  /\ r.pc = "request"
      /\ \E status \in {200, 404, 429, 500, 0}, h \in RetryAfterHeaders :
           LET ret == IF ~HsStatusOk(status) THEN "throw"
                      ELSE IF ShouldRetry(status) THEN "again"
                      ELSE "ok"
               n   == IF r.job.attempts < MaxRequests THEN r.job.attempts + 1
                      ELSE r.job.attempts
               e   == [Event(r, "request", status, ret) EXCEPT !.body =
                         {[requests |-> n,
                           wait |-> IF ret = "again" THEN RetryAfterMs(h) ELSE 0]}]
               r1  == [r EXCEPT !.ev = e, !.job.attempts = n]
           IN  /\ (status # 429 => h = "")
               /\ Step(p, IF ret = "again" THEN r1
                          ELSE NextSyncDay([r1 EXCEPT !.days = @ + 1]))
      /\ UNCHANGED <<crm, mapFile, reports, budget, probe>>

InitRetry == InitWith(MaxStarts, 0, 0)

NextRetry ==
  \/ StartBackfillRange(1)
  \/ SyncAttempt(1)
  \/ HsRequest(1)

\* Every step that can be taken is taken: the process keeps running.
SpecRetry == InitRetry /\ [][NextRetry]_vars /\ WF_vars(NextRetry)

\* C27 - No unbounded retry: the per-day loop of the range backfill makes at
\* most maxRetries attempts for a date, and a call of the CRM client comes
\* to an end (returns or throws) whatever the CRM answers, also when it
\* answers every request with 429 or 5xx.
C27_NoUnboundedRetry ==
  /\ [][\A p \in Procs :
          (procs[p].pc = "sync" /\ procs'[p] # procs[p]) =>
            \A b \in procs'[p].ev.body : b.attempt <= procs[p].opts.maxRetries]_vars
  /\ (procs[1].pc = "request") ~> (procs[1].pc # "request")

\* ------------------------------------------ the report parser, on its text
\* A text is the sequence of its characters; BOM stands for U+FEFF.
BOM == "BOM"

\* /[a-z0-9]/
IsAlnum(c) ==
  \/ \E i \in 1 .. Len(LowerCase) : LowerCase[i] = c
  \/ \E i \in 1 .. Len(DigitChars) : DigitChars[i] = c

Count(l, c) == Cardinality({ i \in 1 .. Len(l) : l[i] = c })

\* num: '' gives 0; commas are removed; Number(...) of decimal text, NaN
\* giving 0.  The value is in thousandths, as the spend of a Row.
IsDigits(s) == \A i \in 1 .. Len(s) : \E d \in 1 .. 10 : DigitChars[d] = s[i]

Unsigned(s) ==
  LET dots == { i \in 1 .. Len(s) : s[i] = "." }
      dot  == IF dots = {} THEN Len(s) + 1 ELSE CHOOSE i \in dots : TRUE
      int  == SubSeq(s, 1, dot - 1)
      frac == SubSeq(s, dot + 1, Len(s))
      pad  == SubSeq(frac \o <<"0", "0", "0">>, 1, 3)
  IN  IF /\ Cardinality(dots) <= 1
         /\ IsDigits(int) /\ IsDigits(frac)
         /\ Len(int) + Len(frac) > 0
         /\ Len(frac) <= 3
      THEN Num(1000 * ParseDigits(int) + ParseDigits(pad))
      ELSE NaN

num(v) ==
  IF v = <<>> THEN Num(0)
  ELSE LET s == SelectSeq(v, LAMBDA c : c # ",")
           n == IF s = <<>> THEN Num(0)
                ELSE IF Head(s) = "-"
                THEN LET u == Unsigned(Tail(s))
                     IN  IF u.k = "num" THEN Num(0 - u.v) ELSE u
                ELSE Unsigned(s)
       IN  IF n.k = "num" THEN n ELSE Num(0)

\* pickDelimiter: the most frequent of ',' ';' '\t', the earlier one on a tie.
pickDelimiter(l) ==
  LET c == Count(l, ",")
      s == Count(l, ";")
      t == Count(l, "\t")
  IN  IF c >= s /\ c >= t THEN ","
      ELSE IF s >= t THEN ";"
      ELSE "\t"

\* splitQuoted's loop from index i on, cur the cell being read, q inside quotes.
RECURSIVE splitFrom(_, _, _, _, _)
splitFrom(line, delim, i, cur, q) ==
  IF i > Len(line) THEN <<cur>>
  ELSE IF line[i] = "\"" THEN
    IF q /\ i < Len(line) /\ line[i + 1] = "\""
    THEN splitFrom(line, delim, i + 2, Append(cur, "\""), q)
    ELSE splitFrom(line, delim, i + 1, cur, ~q)
  ELSE IF line[i] = delim /\ ~q
    THEN <<cur>> \o splitFrom(line, delim, i + 1, <<>>, q)
  ELSE splitFrom(line, delim, i + 1, Append(cur, line[i]), q)

splitQuoted(line, delim) ==
  LET arr == splitFrom(line, delim, 1, <<>>, FALSE)
  IN  [k \in 1 .. Len(arr) |-> trim(arr[k])]

normaliseHeaderToken(t) == SelectSeq(toLowerCase(t), IsAlnum)

\* /^prefix/i.test(raw), prefix in lower case
TestPrefix(raw, prefix) ==
  /\ Len(raw) >= Len(prefix)
  /\ toLowerCase(SubSeq(raw, 1, Len(prefix))) = prefix

ReportNamePrefix ==
  <<"r", "e", "p", "o", "r", "t", " ", "n", "a", "m", "e", ":">>

ReportGeneratedAtPrefix ==
  <<"r", "e", "p", "o", "r", "t", " ", "g", "e", "n", "e", "r", "a", "t", "e", "d", " ", "a", "t">>

AccountPrefix ==
  <<"a", "c", "c", "o", "u", "n", "t", ":">>

TotalPrefix ==
  <<"t", "o", "t", "a", "l", ":">>

timeperiod ==
  <<"t", "i", "m", "e", "p", "e", "r", "i", "o", "d">>

campaignid ==
  <<"c", "a", "m", "p", "a", "i", "g", "n", "i", "d">>

campaignname ==
  <<"c", "a", "m", "p", "a", "i", "g", "n", "n", "a", "m", "e">>

clicksToken ==
  <<"c", "l", "i", "c", "k", "s">>

spendToken ==
  <<"s", "p", "e", "n", "d">>

costToken ==
  <<"c", "o", "s", "t">>

Includes(cols, token) == \E k \in 1 .. Len(cols) : cols[k] = token

\* String.prototype.split(/\r?\n/): the segments between the line breaks of s,
\* without the '\r' before a break.
SplitLines(s) ==
  LET nl       == { i \in 1 .. Len(s) : s[i] = "\n" }
      Break(k) == IF k = 0 THEN 0
                  ELSE IF k > Cardinality(nl) THEN Len(s) + 1
                  ELSE CHOOSE i \in nl : Cardinality({ j \in nl : j < i }) = k - 1
      Seg(k)   == SubSeq(s, Break(k - 1) + 1, Break(k) - 1)
  IN  [k \in 1 .. (Cardinality(nl) + 1) |->
         IF /\ k <= Cardinality(nl)
            /\ Seg(k) # <<>>
            /\ Seg(k)[Len(Seg(k))] = "\r"
         THEN SubSeq(Seg(k), 1, Len(Seg(k)) - 1)
         ELSE Seg(k)]

\* findHeaderIndex from line i on (lines are numbered from 1); found is FALSE
\* for null.
RECURSIVE findHeaderFrom(_, _)
findHeaderFrom(lines, i) ==
  IF i > Len(lines) THEN [found |-> FALSE, index |-> 0, delim |-> ","]
  ELSE
    LET raw == trim(lines[i])
    IN  IF \/ raw = <<>>
           \/ TestPrefix(raw, ReportNamePrefix)
           \/ TestPrefix(raw, ReportGeneratedAtPrefix)
           \/ TestPrefix(raw, AccountPrefix)
        THEN findHeaderFrom(lines, i + 1)
        ELSE
          LET delim == pickDelimiter(raw)
              sq    == splitQuoted(raw, delim)
              cols  == [k \in 1 .. Len(sq) |-> normaliseHeaderToken(sq[k])]
          IN  IF /\ Includes(cols, timeperiod)
                 /\ Includes(cols, campaignname)
                 /\ Includes(cols, clicksToken)
              THEN [found |-> TRUE, index |-> i, delim |-> delim]
              ELSE findHeaderFrom(lines, i + 1)

findHeaderIndex(lines) == findHeaderFrom(lines, 1)

\* colIdx[h] of Object.fromEntries: the last column with that name, 0 for none.
ColIdx(headerNorm, h) ==
  LET at == { k \in 1 .. Len(headerNorm) : headerNorm[k] = h }
  IN  IF at = {} THEN 0 ELSE CHOOSE k \in at : \A j \in at : j <= k

\* col[k]: the column of the first variant the header has, 0 for -1.
RECURSIVE ColOf(_, _)
ColOf(headerNorm, variants) ==
  IF variants = <<>> THEN 0
  ELSE IF ColIdx(headerNorm, Head(variants)) # 0
    THEN ColIdx(headerNorm, Head(variants))
  ELSE ColOf(headerNorm, Tail(variants))

\* cells[c] || ''
Cell(cells, c) == IF c >= 1 /\ c <= Len(cells) THEN cells[c] ELSE <<>>

\* `if (lines.length <= 5) return []` of a text without the header
ShortPayload_Four(lines) == Len(lines) <= 4

ShortPayload(lines) == Len(lines) <= 5

\* `if (row.campaignId || row.campaignName) rows.push(row)`
KeepRow_All(row) == TRUE

KeepRow(row) == row.campaignId # <<>> \/ row.campaignName # <<>>

\* the row of one line of cells
CsvRow(isoDate, cells, headerNorm) ==
  [date         |-> isoDate,
   campaignId   |-> Cell(cells, ColOf(headerNorm, <<campaignid>>)),
   campaignName |-> Cell(cells, ColOf(headerNorm, <<campaignname>>)),
   clicks       |-> num(Cell(cells, ColOf(headerNorm, <<clicksToken>>))),
   spend        |-> num(Cell(cells, ColOf(headerNorm, <<spendToken, costToken>>)))]

\* the loop over the lines after the header, from line i on
RECURSIVE DataRows(_, _, _, _, _, _)
DataRows(isoDate, lines, i, delim, headerCells, headerNorm) ==
  IF i > Len(lines) THEN <<>>
  ELSE
    LET line == trim(lines[i])
    IN  IF line = <<>> \/ TestPrefix(line, TotalPrefix) THEN <<>>
        ELSE
          LET cells == splitQuoted(line, delim)
              rest  == DataRows(isoDate, lines, i + 1, delim, headerCells, headerNorm)
              row   == CsvRow(isoDate, cells, headerNorm)
          IN  IF Len(cells) < Len(headerCells) THEN rest
              ELSE IF KeepRow(row) THEN <<row>> \o rest
              ELSE rest

parseDailyCsv(isoDate, csv) ==
  IF csv = <<>> THEN [threw |-> FALSE, rows |-> <<>>]
  ELSE
    LET text  == IF Head(csv) = BOM THEN Tail(csv) ELSE csv
        lines == SplitLines(text)
    IN  IF Len(lines) < 2 THEN [threw |-> FALSE, rows |-> <<>>]
        ELSE
          LET headerInfo == findHeaderIndex(lines)
          IN  IF ~headerInfo.found
              THEN IF ShortPayload(lines)
                   THEN [threw |-> FALSE, rows |-> <<>>]
                   ELSE [threw |-> TRUE, rows |-> <<>>]
              ELSE
                LET headerCells == splitQuoted(lines[headerInfo.index], headerInfo.delim)
                    headerNorm  == [k \in 1 .. Len(headerCells) |->
                                      normaliseHeaderToken(headerCells[k])]
                IN  [threw |-> FALSE,
                     rows  |-> DataRows(isoDate, lines, headerInfo.index + 1,
                                        headerInfo.delim, headerCells, headerNorm)]

\* ------------------------------------------------ parseDailyCsv on its own
MaxBanners == 4
MaxDataLines == 3

\* Lines a report carries before its header row.
BannerTexts ==
  << <<"R", "e", "p", "o", "r", "t", " ", "N", "a", "m", "e", ":", " ", "X">>,
     <<"R", "e", "p", "o", "r", "t", " ", "G", "e", "n", "e", "r", "a", "t", "e", "d", " ", "A", "t", ":", " ", "1">>,
     <<"A", "C", "C", "O", "U", "N", "T", ":", " ", "A">>,
     <<"T", "i", "m", "e", " ", "Z", "o", "n", "e", ":", " ", "Z">>,
     <<"R", "o", "w", "s", ":", " ", "3">> >>

Banner(k) == BannerTexts[((k - 1) % Len(BannerTexts)) + 1]

HeaderNames ==
  << <<"T", "i", "m", "e", "P", "e", "r", "i", "o", "d">>,
     <<"C", "a", "m", "p", "a", "i", "g", "n", "I", "d">>,
     <<"C", "a", "m", "p", "a", "i", "g", "n", " ", "N", "a", "m", "e">>,
     <<"C", "l", "i", "c", "k", "s">>,
     <<"S", "p", "e", "n", "d">> >>

DayText ==
  <<"2", "0", "2", "4", "-", "0", "2", "-", "2", "9">>

OtherDayText ==
  <<"2", "0", "2", "4", "-", "0", "2", "-", "2", "8">>

ThousandsText ==
  <<"1", ",", "2", "3", "4">>

FullCells(day) == << day, <<"7">>, <<"A">>, ThousandsText, <<"1", "2", ".", "5">> >>

LineKinds == {"short", "anon", "emptyLast", "blank", "total", "otherDay", "long"}

CellsOf(kind) ==
  IF kind = "short" THEN << DayText, <<"7">>, <<"A">> >>
  ELSE IF kind = "anon" THEN << DayText, <<>>, <<>>, <<"7">>, <<"1">> >>
  ELSE IF kind = "emptyLast" THEN << DayText, <<"8">>, <<"B">>, <<"7">>, <<>> >>
  ELSE IF kind = "total" THEN << <<"T", "o", "t", "a", "l", ":">>, <<>>, <<>>, <<"7">>, <<"1">> >>
  ELSE IF kind = "otherDay" THEN FullCells(OtherDayText)
  ELSE IF kind = "long" THEN Append(FullCells(DayText), <<"x">>)
  ELSE <<>>

\* A cell as the report writes it: in quotes when it holds a comma.
Written(cell) ==
  IF Count(cell, ",") > 0 THEN <<"\"">> \o cell \o <<"\"">> ELSE cell

RECURSIVE JoinCells(_, _)
JoinCells(cells, delim) ==
  IF cells = <<>> THEN <<>>
  ELSE IF Len(cells) = 1 THEN Written(cells[1])
  ELSE Written(Head(cells)) \o <<delim>> \o JoinCells(Tail(cells), delim)

RECURSIVE JoinLines(_, _)
JoinLines(lines, finalBreak) ==
  IF lines = <<>> THEN <<>>
  ELSE IF Len(lines) = 1
    THEN Head(lines) \o (IF finalBreak THEN <<"\n">> ELSE <<>>)
  ELSE Head(lines) \o <<"\n">> \o JoinLines(Tail(lines), finalBreak)

\* The report texts handed to the parser: banners banner lines, the header
\* row or none, full data lines with at most one line of another kind after
\* the first `at` of them, with or without a line break after the last line;
\* a text without the header row has banner lines and full lines only.
CsvShapes ==
  [banners : 0 .. MaxBanners, header : BOOLEAN, delim : {",", ";", "\t"},
   full : 0 .. MaxDataLines, other : LineKinds \cup {"none"},
   at : 0 .. MaxDataLines, finalBreak : BOOLEAN, bom : BOOLEAN]

DataLinesOf(s) ==
  LET full == JoinCells(FullCells(DayText), s.delim)
  IN  [k \in 1 .. s.at |-> full]
      \o (IF s.other = "none" THEN <<>>
          ELSE <<JoinCells(CellsOf(s.other), s.delim)>>)
      \o [k \in 1 .. (s.full - s.at) |-> full]

CsvOf(s) ==
  (IF s.bom THEN <<BOM>> ELSE <<>>)
  \o JoinLines([k \in 1 .. s.banners |-> Banner(k)]
               \o (IF s.header THEN <<JoinCells(HeaderNames, s.delim)>> ELSE <<>>)
               \o DataLinesOf(s),
               s.finalBreak)

\* The requested day: the one the full lines carry, or the day after it.
RequestedDates == { BaseDate, IsoOfEpochDay(EpochDay(BaseDate) + 1) }

InitParse ==
  /\ InitWith(0, 0, 0)!1
  /\ InitWith(0, 0, 0)!2
  /\ InitWith(0, 0, 0)!3
  /\ InitWith(0, 0, 0)!4
  /\ InitWith(0, 0, 0)!5
  /\ \E s \in CsvShapes, isoDate \in RequestedDates :
       /\ s.at <= s.full
       /\ s.other = "none" => s.at = 0
       /\ ~s.header => (s.other = "none" /\ s.delim = ",")
       /\ probe = [NoProbe EXCEPT
                     !.fn = "parseDailyCsv",
                     !.args = [isoDate |-> isoDate, csv |-> CsvOf(s), shape |-> s]]

CallParseDailyCsv ==
  /\ probe.fn = "parseDailyCsv"
  /\ ~probe.returned
  /\ probe' = [probe EXCEPT
       !.returned = TRUE,
       !.out = parseDailyCsv(probe.args.isoDate, probe.args.csv)]
  /\ UNCHANGED <<crm, mapFile, reports, procs, budget>>

NextParse == CallParseDailyCsv

SpecParse == InitParse /\ [][NextParse]_vars

\* The lines of a text: one for each line break, and one more for what
\* follows the last line break when that is not empty.
PayloadLines(csv) ==
  LET nl == { i \in 1 .. Len(csv) : csv[i] = "\n" }
  IN  Cardinality(nl)
      + (IF csv # <<>> /\ csv[Len(csv)] # "\n" THEN 1 ELSE 0)

\* The line has all of the time-period, campaign-name and clicks columns,
\* under the delimiter d.
HasAllColumns(line, d) ==
  LET sq   == splitQuoted(line, d)
      cols == [k \in 1 .. Len(sq) |-> normaliseHeaderToken(sq[k])]
  IN  /\ Includes(cols, timeperiod)
      /\ Includes(cols, campaignname)
      /\ Includes(cols, clicksToken)

Headerless(csv) ==
  LET lines == SplitLines(csv)
  IN  \A k \in 1 .. Len(lines) :
        \A d \in {",", ";", "\t"} : ~HasAllColumns(lines[k], d)

NoRowsNoThrow == probe.out = [threw |-> FALSE, rows |-> <<>>]

\* C28 as stated: a returned parseDailyCsv call on a text none of whose lines
\* has the time-period, campaign-name and clicks columns gave no rows and no
\* throw when the text has fewer than 5 lines, and threw when it has 5 or more.
C28_ShortHeaderlessAsStated ==
  (probe.fn = "parseDailyCsv" /\ probe.returned /\ Headerless(probe.args.csv))
    => IF PayloadLines(probe.args.csv) < 5 THEN NoRowsNoThrow
       ELSE probe.out.threw

\* C28, amended: a returned parseDailyCsv call on a text none of whose lines
\* has the time-period, campaign-name and clicks columns gave no rows and no
\* throw when the text has fewer than 5 lines, or exactly 5 lines with no line
\* break after the last, and threw otherwise.
C28_ShortHeaderless ==
  (probe.fn = "parseDailyCsv" /\ probe.returned /\ Headerless(probe.args.csv))
    => IF \/ PayloadLines(probe.args.csv) < 5
          \/ /\ PayloadLines(probe.args.csv) = 5
             /\ probe.args.csv[Len(probe.args.csv)] # "\n"
       THEN NoRowsNoThrow
       ELSE probe.out.threw

\* A text of five lines without the header row and without a line break after
\* the last line was parsed to no rows.
C28_Witness ==
  /\ probe.fn = "parseDailyCsv" /\ probe.returned
  /\ Headerless(probe.args.csv)
  /\ PayloadLines(probe.args.csv) = 5
  /\ probe.args.csv[Len(probe.args.csv)] # "\n"
  /\ NoRowsNoThrow

\* The lines of the text of the call, and its header row: the line after the
\* banner lines, written with the delimiter of the text.
ProbeLines ==
  SplitLines(IF probe.args.shape.bom THEN Tail(probe.args.csv) ELSE probe.args.csv)

HeaderAt == probe.args.shape.banners + 1

HeaderFields == splitQuoted(ProbeLines[HeaderAt], probe.args.shape.delim)

\* The data lines: the lines after the header row, up to the first blank line
\* or total line.
IsDataEnd(line) == trim(line) = <<>> \/ TestPrefix(trim(line), TotalPrefix)

DataLineIndexes ==
  { i \in (HeaderAt + 1) .. Len(ProbeLines) :
      \A j \in (HeaderAt + 1) .. i : ~IsDataEnd(ProbeLines[j]) }

\* The fields of a data line as written, and the line's campaign id and name.
FieldsOf(i) == splitQuoted(ProbeLines[i], probe.args.shape.delim)

Named(i) == FieldsOf(i)[2] # <<>> \/ FieldsOf(i)[3] # <<>>

\* C29: a returned parseDailyCsv call on a text with any number of banner
\* lines and a header row delimited by comma, semicolon or tab did not throw
\* and gave one row for each data line with at least as many fields as the
\* header (and a campaign id or name), none for a shorter line, and the clicks
\* 1234 for each such line whose clicks field reads 1,234.
C29_OneRowPerFullLine ==
  (probe.fn = "parseDailyCsv" /\ probe.returned /\ probe.args.shape.header)
    => /\ ~probe.out.threw
       /\ Len(probe.out.rows)
            = Cardinality({ i \in DataLineIndexes :
                             Len(FieldsOf(i)) >= Len(HeaderFields) /\ Named(i) })
       /\ Cardinality({ k \in 1 .. Len(probe.out.rows) :
                          probe.out.rows[k].clicks = Num(1234 * 1000) })
            = Cardinality({ i \in DataLineIndexes :
                             /\ Len(FieldsOf(i)) >= Len(HeaderFields)
                             /\ Named(i)
                             /\ FieldsOf(i)[4] = ThousandsText })

\* The spec's example: 4 banner lines, a semicolon header and 3 data rows
\* gave exactly 3 rows, each with the clicks 1234.
C29_SemicolonExample ==
  (/\ probe.fn = "parseDailyCsv" /\ probe.returned
   /\ probe.args.shape.header
   /\ probe.args.shape.banners = 4
   /\ probe.args.shape.delim = ";"
   /\ probe.args.shape.full = 3
   /\ probe.args.shape.other = "none")
    => /\ ~probe.out.threw
       /\ Len(probe.out.rows) = 3
       /\ \A k \in 1 .. 3 : probe.out.rows[k].clicks = Num(1234 * 1000)

\* C30: every row a returned parseDailyCsv call gave carries the requested
\* date, whatever its line's time-period field reads, and a campaign id or a
\* campaign name.
C30_RequestedDateStamped ==
  (probe.fn = "parseDailyCsv" /\ probe.returned)
    => \A k \in 1 .. Len(probe.out.rows) :
         /\ probe.out.rows[k].date = probe.args.isoDate
         /\ (probe.out.rows[k].campaignId # <<>>
             \/ probe.out.rows[k].campaignName # <<>>)

\* A call for a date gave rows from lines whose time-period field reads another
\* day, and the text had a line with neither campaign id nor name.
C30_Witness ==
  /\ probe.fn = "parseDailyCsv" /\ probe.returned
  /\ probe.args.shape.header
  /\ probe.args.shape.other = "anon"
  /\ probe.args.shape.full = 2
  /\ probe.args.isoDate # BaseDate
  /\ Len(probe.out.rows) = 2

\* ------------------------------------------------------ first-run acceptance
\* The totals of a campaign record as numbers.
TotalsRead(c) == getTotalsAndLastDate(c)

\* C31 - First-run acceptance: a call of addDailyTotalsMonotonic for any day d
\* on a campaign whose record holds no last-processed marker returns true,
\* leaves the totals at their former values plus the delta, and sets the
\* marker to d.
C31_FirstRunAccepted ==
  [][ \A c \in {crm["live"][LastCall'.id]}, c2 \in {crm'["live"][LastCall'.id]} :
        ( /\ budget'.calls < budget.calls
          /\ LastCall'.op = "addDailyTotalsMonotonic"
          /\ c.exists
          /\ c.last = <<>> )
        => ( /\ LastCall'.ret = "true"
             /\ \A delta \in LastCall'.row :
                  /\ TotalsRead(c2).clicks = TotalsRead(c).clicks + delta.clicks
                  /\ TotalsRead(c2).imps = TotalsRead(c).imps + delta.impressions
                  /\ TotalsRead(c2).convs = TotalsRead(c).convs + delta.conversions
             /\ c2.last = <<toEpochMillis(LastCall'.day)>> ) ]_vars

\* The first call on a campaign without a marker was made for the last day of
\* the calendar and returned true.
C31_Witness ==
  /\ budget.calls = MaxCalls - 1
  /\ LastCall.op = "addDailyTotalsMonotonic"
  /\ LastCall.ret = "true"
  /\ \A d \in Dates : EpochDay(d) <= EpochDay(LastCall.day)
  /\ crm["live"][LastCall.id].last = <<toEpochMillis(LastCall.day)>>

\* --------------------------------------------------------- report job lifecycle
\* The job states after which pollForUrl returns.
TerminalStates == {"Success", "Failed", "Error"}

\* C32 - Report job lifecycle: within one day's fetch the poll loop is entered
\* only by a submit that returned a request id, the download only by a poll
\* answered Success with a URL; a poll answered with a terminal state, or
\* answered after the total timeout has elapsed, is the last poll of the job.
C32_JobLifecycle ==
  [][\A p \in Procs :
       LET r  == procs[p]
           r2 == procs'[p]
       IN  /\ (r2.pc = "poll" /\ r.pc # "poll")
                => ( /\ r.pc = "submit"
                     /\ r2.ev.op = "submit" /\ r2.ev.ret = "id"
                     /\ r2.job.elapsed = 0 )
           /\ (r2.pc = "download" /\ r.pc # "download")
                => ( /\ r.pc = "poll"
                     /\ r2.ev.op = "poll"
                     /\ \A b \in r2.ev.body : b.state = "Success" /\ b.url )
           /\ (r.pc = "poll" /\ r2 # r)
                => ( /\ r2.ev.op = "poll"
                     /\ r2.pc = "poll"
                          => \A b \in r2.ev.body :
                               /\ b.state \notin TerminalStates
                               /\ b.elapsed <= TOTAL_TIMEOUT_MS )]_vars

\* A download began after a poll loop that waited at least once.
C32_Witness ==
  /\ procs[1].pc = "download"
  /\ procs[1].ev.op = "poll"
  /\ procs[1].ev.ret = "url"
  /\ procs[1].job.elapsed >= POLL_INTERVAL_MS

\* ------------------------------------------------- rows as the parser reads them
\* What a metric cell of a report line may read.
MetricTexts == { <<>>, <<"0">>, <<"2">>, <<"1", ",", "2", "3", "4">>, <<"-", "3">> }

\* The number num gives for a cell with a whole number (num is in thousandths).
MetricOf(text) == num(text).v \div 1000

\* One campaign reported by Bing with the impressions and clicks its line
\* reads, or no data.
ParsedDayReports ==
  { << <<>>, <<>> >> }
  \cup { << <<Row("A", MetricOf(i), MetricOf(c), 0, Num(1254))>>, <<>> >> :
           i \in MetricTexts, c \in MetricTexts }

InitSum == InitWith(MaxStarts, 0, 0)

NextSum ==
  \/ StartRun(1, "live", {FALSE})
  \/ RunStep(1, ParsedDayReports)

SpecSum == InitSum /\ [][NextSum]_vars

\* C33 - Totals only accumulate: whatever the rows the parser produced, each
\* of the three totals of a campaign is a non-negative whole number after
\* every step and never smaller than before the step.
C33_TotalsOnlyAccumulate ==
  [][\A w \in Worlds, id \in Ids :
       LET before == getTotalsAndLastDate(crm[w][id])
           after  == getTotalsAndLastDate(crm'[w][id])
       IN  /\ after.clicks >= 0 /\ after.clicks >= before.clicks
           /\ after.imps >= 0 /\ after.imps >= before.imps
           /\ after.convs >= 0 /\ after.convs >= before.convs]_vars

\* ---------------------------------------------------------------- zero delta
\* The positions of a process inside the resolve and spend parts of a row.
RowPcs == {"row", "verify", "find", "create", "save", "spend"}

\* The row's clicks, impressions and conversions are all zero.
ZeroRow(row) == row.clicks = 0 /\ row.impressions = 0 /\ row.conversions = 0

\* The totals and the marker of every campaign are as they were.
TotalsAndMarkerKept ==
  \A w \in Worlds, id \in Ids :
    /\ Totals(crm'[w][id]) = Totals(crm[w][id])
    /\ crm'[w][id].last = crm[w][id].last

\* C34 - Zero delta is skipped: no step a process takes for a row whose
\* clicks, impressions and conversions are all zero leads to the totals read
\* or the totals PATCH; the totals and markers stay as they were, no totals
\* update is counted, and a failure is counted only for a missing name, a
\* failed resolve or a failed spend write.
C34_ZeroDeltaSkipped ==
  [][\A p \in Procs :
       LET r  == procs[p]
           r2 == procs'[p]
       IN  ( /\ r.pc \in RowPcs
             /\ r2 # r
             /\ ZeroRow(r.rows[r.i]) )
           => ( /\ r2.pc \notin {"tget", "tpatch"}
                /\ r2.ev.op \notin {"tget", "tpatch"}
                /\ TotalsAndMarkerKept
                /\ AddedTally(r2) = AddedTally(r)
                /\ FailTally(r2) # FailTally(r)
                     => ( /\ FailTally(r2) = FailTally(r) + 1
                          /\ \/ r2.ev.op = "row"
                             \/ r2.ev.op \in {"create", "spend"} /\ r2.ev.ret = "throw" ) )]_vars

\* The row of campaign B without metrics was resolved by its cached id and
\* the run went on to the next source.
C34_Witness ==
  /\ procs[1].ev.op = "get"
  /\ procs[1].ev.status = 200
  /\ procs[1].ev.row = {Row("B", 0, 0, 0, Num(4))}
  /\ procs[1].pc = "fetch"
  /\ procs[1].si = 2

\* ------------------------------------------------- cache under two writers
\* A day on which Bing reports campaign A, or campaign B.
CacheReports ==
  { << <<Row("A", 3, 1, 0, Num(1254))>>, <<>> >>,
    << <<Row("B", 5, 1, 0, Num(0))>>, <<>> >> }

\* Two sync processes at the same time on the same CRM and map file, each
\* started once over any range; every call is answered.
InitCache == InitWith(0, 0, 0)

NextCache ==
  \E p \in Procs :
    \/ StartRace(p)
    \/ RunStep(p, CacheReports)

SpecCache == InitCache /\ [][NextCache]_vars

\* The campaign names process p has resolved: those of the rows of the days
\* of its range.
NamesResolved(p) ==
  { row[1][1].campaignName :
      row \in UNION { reports[d] : d \in { eachDate(procs[p].from, procs[p].to)[k] :
                                            k \in 1 .. procs[p].di } } }

\* C35 - Cache under concurrent writers: once two processes that resolved
\* different campaign names have both finished, the map file holds the
\* mapping of every name either of them resolved.
C35_BothMappingsKept ==
  ( /\ \A p \in Procs : procs[p].pc = "done"
    /\ NamesResolved(1) \cap NamesResolved(2) = {} )
  => \A p \in Procs : \A n \in NamesResolved(p) : mapFile["live"][n] # 0

\* ------------------------------------------------------ create only when absent
\* C36 - Create only when absent: under a single sync process every campaign
\* create the resolver issues is for a name no campaign of the CRM has at that
\* moment, and the CRM never holds two campaigns of one name.
C36_CreateOnlyWhenAbsent ==
  /\ [][\A p \in Procs :
          LET r  == procs[p]
              r2 == procs'[p]
          IN  (r.pc = "create" /\ r2 # r /\ r2.ev.op = "create")
              => CrmIdsNamed(crm[r.world], r.rows[r.i].campaignName) = {}]_vars
  /\ [](\A w \in Worlds, n \in Names : Cardinality(CrmIdsNamed(crm[w], n)) <= 1)

\* ----------------------------------------------------------- counter accuracy
SpendTally(r) == r.spendItems + r.dS

\* The step from r to r2 ended a day: the date loop took its next date or
\* ended.
DayEnded(r, r2) == r2.di = r.di + 1 \/ (r.pc # "done" /\ r2.pc = "done")

\* C37 - Counter accuracy: with every step of a run the counters its summary
\* prints go up by what the step did - SpendItems by one for a spend create
\* that returned, TotalsAdded by one for a totals call that returned true,
\* Failures by one for a call that threw or a row without name - and a day
\* that ends adds one to Days or, ended by an exception, one to Failures.
C37_CounterAccuracy ==
  [][\A p \in Procs :
       LET r  == procs[p]
           r2 == procs'[p]
           One(b) == IF b THEN 1 ELSE 0
       IN  (Active(r) /\ r2 # r) =>
             /\ SpendTally(r2) = SpendTally(r)
                  + One(r.pc = "spend" /\ r2.ev.ret = "ok")
             /\ AddedTally(r2) = AddedTally(r)
                  + One(r.pc = "tpatch" /\ r2.ev.ret = "true")
             /\ FailTally(r2) = FailTally(r)
                  + One(r2.ev.ret = "throw"
                        \/ (r.pc = "row" /\ r.rows[r.i].campaignName = ""))
             /\ r2.days = r.days
                  + One(DayEnded(r, r2) /\ ~(r.pc = "fetch" /\ r2.ev.ret = "throw"))]_vars

\* ------------------------------------------------------- failed totals write
\* C38 - Failed totals write changes nothing: a GET or PATCH of a totals call
\* that fails leaves the CRM as it was and counts one failure; a totals call
\* for a day after the campaign's marker (the marker a failed call left
\* behind included) goes on to its PATCH, and the PATCH adds the row's delta
\* to the totals, sets the marker to the day and is the only application of
\* that day.
C38_FailedWriteChangesNothing ==
  [][\A p \in Procs :
       LET r  == procs[p]
           r2 == procs'[p]
           c  == Target(p)
           c2 == crm'[r.world][r.campaignId]
           d  == RowDelta(r.rows[r.i])
       IN  /\ (r.pc \in {"tget", "tpatch"} /\ r2 # r /\ r2.ev.ret = "throw")
                => ( /\ crm' = crm
                     /\ FailTally(r2) = FailTally(r) + 1 )
           /\ ( /\ r.pc = "tget" /\ r2 # r /\ r2.ev.status = 200
                /\ Marker(c) < toEpochMillis(r.ymd) )
                => r2.pc = "tpatch"
           /\ (r.pc = "tpatch" /\ r2 # r /\ r2.ev.ret = "true")
                => ( /\ StrToNum(c2.clicks) = StrToNum(c.clicks) + d.clicks
                     /\ StrToNum(c2.imps) = StrToNum(c.imps) + d.impressions
                     /\ StrToNum(c2.convs) = StrToNum(c.convs) + d.conversions
                     /\ Marker(c2) = toEpochMillis(r.ymd)
                     /\ c2.prov[r.ymd] = 1 )]_vars

\* In the first run the totals call of the Bing row of the first day failed
\* after its spend item was written, and the totals call of the Twitter row
\* of the same day was applied: the campaign holds the Twitter delta alone.
C38_Witness ==
  /\ budget.starts = MaxStarts - 1
  /\ budget.faults = MaxFaults - 1
  /\ procs[1].ev.op = "tpatch"
  /\ procs[1].ev.ret = "true"
  /\ procs[1].ev.day = procs[1].from
  /\ procs[1].ev.row = {Row("A", 1, 1, 0, Num(500))}
  /\ FailTally(procs[1]) = 1
  /\ \E e \in crm["live"][procs[1].ev.id].spend : e.name[1] = "Bing Ads"
  /\ crm["live"][procs[1].ev.id].clicks = <<"1">>
  /\ crm["live"][procs[1].ev.id].prov[procs[1].ev.day] = 1

\* ------------------------------------------------------ re-run after a miss
\* Runs one after another over days on which Bing reports campaign "A", with
\* HTTP calls that may fail.
InitRecover == InitWith(MaxStarts, MaxFaults, 0)

NextRecover ==
  \/ StartRun(1, "live", {FALSE})
  \/ RunStep(1, RaceReports)

SpecRecover == InitRecover /\ [][NextRecover]_vars

\* The run in slot p has ended without a failure, and the completed run
\* before it, over the same range, had counted one.
RecoveryRunDone(p) ==
  /\ procs[p].pc = "done"
  /\ ~procs[p].dryRun
  /\ procs[p].failures = 0
  /\ \E last \in procs[p].prev :
       /\ ~last.dryRun
       /\ last.from = procs[p].from
       /\ last.to = procs[p].to
       /\ last.failures > 0

\* C39 - Missed days are recoverable by re-run: when a run over [from, to]
\* missed a day and the same range is run again with every report available
\* and no failure, the totals of the campaign are the sum of the rows of all
\* days of the range.
C39_MissedDayRecovered ==
  \A p \in Procs :
    RecoveryRunDone(p)
      => LET r    == procs[p]
             mine == NamedRows(RowsOfDays(eachDate(r.from, r.to)), "A")
         IN  \A id \in CrmIdsNamed(crm[r.world], "A") :
               LET got == getTotalsAndLastDate(crm[r.world][id])
               IN  /\ got.clicks = SumOver(mine, "clicks")
                   /\ got.imps = SumOver(mine, "impressions")
                   /\ got.convs = SumOver(mine, "conversions")

\* ---------------------------------------------------- two concurrent runs
\* Two processes, each started once over the whole of RaceDates, on days on
\* which Bing reports campaign "A"; no call fails by itself.
InitConverge == InitWith(0, 0, 0)

StartConverge(p) ==
  /\ procs[p].pc = "idle"
  /\ Step(p, Launch(p, "live", BaseDate,
                    IsoOfEpochDay(EpochDay(BaseDate) + MaxRaceDays - 1), FALSE))
  /\ UNCHANGED <<crm, mapFile, reports, budget, probe>>

NextConverge ==
  \E p \in Procs :
    \/ StartConverge(p)
    \/ RunStep(p, RaceReports)

SpecConverge == InitConverge /\ [][NextConverge]_vars

\* Both runs have ended and neither has counted a failure.
BothRunsDone ==
  \A p \in Procs : procs[p].pc = "done" /\ procs[p].failures = 0

\* C40 - Convergence of two concurrent runs over the same range: when both
\* have run the whole range to completion without a failure, the campaign's
\* totals are the sum of the days' deltas and its marker is the last day with
\* a non-zero row.
C40_ConcurrentRunsConverge ==
  BothRunsDone
    => LET r    == procs[1]
           ds   == eachDate(r.from, r.to)
           mine == NamedRows(RowsOfDays(ds), "A")
       IN  \A id \in CrmIdsNamed(crm["live"], "A") :
             LET got == getTotalsAndLastDate(crm["live"][id])
             IN  /\ got.clicks = SumOver(mine, "clicks")
                 /\ got.imps = SumOver(mine, "impressions")
                 /\ got.convs = SumOver(mine, "conversions")
                 /\ got.lastMs = LastNonZeroDay(ds, "A")

====
